---- MODULE Spec2Model ----
(***************************************************************************)
(* World Time Tool (scripts/app.js): the application state, its three      *)
(* persisted records, the candidate ("block") and city managers, the       *)
(* drag-selection controller and the URL-parameter application, as a state *)
(* machine.  Instants are milliseconds since the epoch; a civil date       *)
(* {year, month, day} is represented by its day ordinal d, the number with *)
(* Date.UTC(year, month - 1, day) = d * DAY_MS.                            *)
(***************************************************************************)
EXTENDS Integers, Sequences, FiniteSets, TLC

\* ------------------------------------------------------------------ bounds
MaxSteps == 3        \* user operations explored after startup
DayLo == 1           \* civil dates reachable by prev/next day buttons
DayHi == 4

\* ------------------------------------------------------- program constants
MAX_BLOCKS == 5
DEFAULT_GRANULARITY == 60
DAY_MIN == 1440
MS_PER_MIN == 60000
DAY_MS == 86400000
HOUR_MS == 3600000
SCAN_HALF_WINDOW_H == 36

Granularities == {15, 30, 60}

\* ---------------------------------------------------------------- utilities
Min(a, b) == IF a <= b THEN a ELSE b
Max(a, b) == IF a >= b THEN a ELSE b

clamp(v, lo, hi) == Max(lo, Min(hi, v))

\* Math.round(n / d) for d > 0: the nearest integer, halves rounded up.
MathRound(n, d) == (2 * n + d) \div (2 * d)

RECURSIVE SelectSeqBy(_, _)
\* Array.prototype.filter keeping the elements whose id is not `id`.
SelectSeqBy(s, id) ==
  IF s = <<>> THEN <<>>
  ELSE IF Head(s).id = id THEN SelectSeqBy(Tail(s), id)
       ELSE <<Head(s)>> \o SelectSeqBy(Tail(s), id)

\* Array.prototype.findIndex on the id field; 0 stands for JavaScript's -1,
\* positions are 1-based.
findIndexById(s, id) ==
  IF \E i \in 1..Len(s) : s[i].id = id
  THEN CHOOSE i \in 1..Len(s) : s[i].id = id /\ \A j \in 1..(i - 1) : s[j].id # id
  ELSE 0

\* Array.prototype.splice(pos, 1) and splice(pos, 0, x), 1-based positions.
spliceOut(s, pos) == SubSeq(s, 1, pos - 1) \o SubSeq(s, pos + 1, Len(s))
spliceIn(s, pos, x) == SubSeq(s, 1, pos - 1) \o <<x>> \o SubSeq(s, pos, Len(s))

\* ---------------------------------------------------------------------- text
\* JavaScript strings whose characters the program inspects are spelled out
\* as sequences of one-character strings.
Strings ==
  {"UTC", "Asia/Tokyo", "America/New_York", "Etc/GMT+1", "Etc/GMT-1", "tz-utc", "tz-asia-tokyo", "tz-america-new-york", "tz-etc-gmt-1", "tokyo", "new-york",
   "Etc/GMT+2", "Etc/GMT+3", "Etc/GMT+4", "Etc/GMT+5", "Etc/GMT+6", "Etc/GMT+7", "Etc/GMT+8", "Etc/GMT+9", "Etc/GMT+10", "Etc/GMT+11", "tz-etc-gmt-2", "tz-etc-gmt-3", "tz-etc-gmt-4", "tz-etc-gmt-5", "tz-etc-gmt-6", "tz-etc-gmt-7", "tz-etc-gmt-8", "tz-etc-gmt-9", "tz-etc-gmt-10", "tz-etc-gmt-11"}

\* The identifiers Etc/GMT+2 .. Etc/GMT+11 and the ids derived from them are
\* spelled from their common part and their number.
GmtFamily ==
  <<"Etc/GMT+2", "Etc/GMT+3", "Etc/GMT+4", "Etc/GMT+5", "Etc/GMT+6", "Etc/GMT+7",
    "Etc/GMT+8", "Etc/GMT+9", "Etc/GMT+10", "Etc/GMT+11",
    "tz-etc-gmt-2", "tz-etc-gmt-3", "tz-etc-gmt-4", "tz-etc-gmt-5", "tz-etc-gmt-6",
    "tz-etc-gmt-7", "tz-etc-gmt-8", "tz-etc-gmt-9", "tz-etc-gmt-10", "tz-etc-gmt-11">>

familyIndex(s) == CHOOSE k \in 1..20 : GmtFamily[k] = s

DecimalDigits == <<"0", "1", "2", "3", "4", "5", "6", "7", "8", "9">>

familyChars(k) ==
  (IF k <= 10 THEN <<"E", "t", "c", "/", "G", "M", "T", "+">>
              ELSE <<"t", "z", "-", "e", "t", "c", "-", "g", "m", "t", "-">>)
  \o (IF (k - 1) % 10 >= 8 THEN <<"1">> ELSE <<>>)
  \o <<DecimalDigits[((k + 1) % 10) + 1]>>

Chars(s) ==
  CASE s = "UTC" -> <<"U", "T", "C">>
    [] s = "Asia/Tokyo" -> <<"A", "s", "i", "a", "/", "T", "o", "k", "y", "o">>
    [] s = "America/New_York" -> <<"A", "m", "e", "r", "i", "c", "a", "/", "N", "e", "w", "_", "Y", "o", "r", "k">>
    [] s = "Etc/GMT+1" -> <<"E", "t", "c", "/", "G", "M", "T", "+", "1">>
    [] s = "Etc/GMT-1" -> <<"E", "t", "c", "/", "G", "M", "T", "-", "1">>
    [] s = "tz-utc" -> <<"t", "z", "-", "u", "t", "c">>
    [] s = "tz-asia-tokyo" -> <<"t", "z", "-", "a", "s", "i", "a", "-", "t", "o", "k", "y", "o">>
    [] s = "tz-america-new-york" -> <<"t", "z", "-", "a", "m", "e", "r", "i", "c", "a", "-", "n", "e", "w", "-", "y", "o", "r", "k">>
    [] s = "tz-etc-gmt-1" -> <<"t", "z", "-", "e", "t", "c", "-", "g", "m", "t", "-", "1">>
    [] s = "tokyo" -> <<"t", "o", "k", "y", "o">>
    [] s = "new-york" -> <<"n", "e", "w", "-", "y", "o", "r", "k">>
    [] OTHER -> familyChars(familyIndex(s))

\* The string with the given characters.
Text(cs) == CHOOSE s \in Strings : Chars(s) = cs

UpperLetters == <<"A", "B", "C", "D", "E", "F", "G", "H", "I", "J", "K", "L", "M", "N", "O", "P", "Q", "R", "S", "T", "U", "V", "W", "X", "Y", "Z">>
LowerLetters == <<"a", "b", "c", "d", "e", "f", "g", "h", "i", "j", "k", "l", "m", "n", "o", "p", "q", "r", "s", "t", "u", "v", "w", "x", "y", "z">>
Digits == {"0", "1", "2", "3", "4", "5", "6", "7", "8", "9"}

\* String.prototype.toLowerCase, one character and a whole string.
lowerChar(c) ==
  IF \E k \in 1..Len(UpperLetters) : UpperLetters[k] = c
  THEN LowerLetters[CHOOSE k \in 1..Len(UpperLetters) : UpperLetters[k] = c]
  ELSE c

toLowerCase(cs) == [i \in 1..Len(cs) |-> lowerChar(cs[i])]

\* The character class [a-z0-9].
IsLowerAlnum(c) == c \in Digits \/ \E k \in 1..Len(LowerLetters) : LowerLetters[k] = c

RECURSIVE replaceRuns(_, _)
\* String.prototype.replace(/[^a-z0-9]+/g, '-'): every maximal run of other
\* characters becomes one '-'; inRun tells that the previous character
\* belonged to such a run.
replaceRuns(cs, inRun) ==
  IF cs = <<>> THEN <<>>
  ELSE IF IsLowerAlnum(Head(cs)) THEN <<Head(cs)>> \o replaceRuns(Tail(cs), FALSE)
       ELSE IF inRun THEN replaceRuns(Tail(cs), TRUE)
            ELSE <<"-">> \o replaceRuns(Tail(cs), TRUE)

\* ------------------------------------------------- host time-zone facility
\* Intl.DateTimeFormat as the host provides it: the wall-clock-minus-UTC
\* offset of each zone at each instant.  The transitions of the zones that
\* have one are placed on day 3:
\*   America/New_York  springs forward at 02:00 local time (07:00 UTC);
\*   Australia/Sydney  springs forward at 02:00 local time (day 2, 16:00 UTC);
\*   America/Sao_Paulo springs forward at 00:00 local time (03:00 UTC);
\*   Europe/London     falls back at 02:00 local time (01:00 UTC);
\*   America/Havana    falls back at 01:00 local time (05:00 UTC).
\* Africa/Monrovia keeps the offset -0:44:30 it had until 1972.
Zones == {"UTC", "Asia/Tokyo", "America/New_York"}

SpringForwardUtc == 3 * DAY_MS + 7 * HOUR_MS

HostOffsetMin(ts, tz) ==
  CASE tz = "Asia/Tokyo" -> 540
    [] tz = "America/New_York" -> IF ts < SpringForwardUtc THEN -300 ELSE -240
    [] tz = "Etc/GMT+1" -> -60
    [] tz = "Etc/GMT-1" -> 60
    [] tz = "Asia/Kolkata" -> 330
    [] tz = "Asia/Kathmandu" -> 345
    [] tz = "Australia/Sydney" -> IF ts < 2 * DAY_MS + 16 * HOUR_MS THEN 600 ELSE 660
    [] tz = "America/Sao_Paulo" -> IF ts < 3 * DAY_MS + 3 * HOUR_MS THEN -180 ELSE -120
    [] tz = "Europe/London" -> IF ts < 3 * DAY_MS + HOUR_MS THEN 60 ELSE 0
    [] tz = "America/Havana" -> IF ts < 3 * DAY_MS + 5 * HOUR_MS THEN -240 ELSE -300
    [] OTHER -> 0

\* The same offset in seconds.
HostOffsetSec(ts, tz) ==
  IF tz = "Africa/Monrovia" THEN -2670 ELSE 60 * HostOffsetMin(ts, tz)

\* partsFromTs: the civil fields of instant ts in zone tz; formatting drops
\* the milliseconds.
partsFromTs(ts, tz) ==
  LET localSec == (ts + HostOffsetSec(ts, tz) * 1000) \div 1000
      day == localSec \div 86400
      rest == localSec % 86400
  IN [day |-> day,
      hour |-> rest \div 3600,
      minute |-> (rest % 3600) \div 60,
      second |-> rest % 60,
      weekday |-> (day + 4) % 7]

\* Date.UTC(year, month - 1, day, hour, minute, second) of civil fields.
DateUTC(day, hour, minute, second) ==
  day * DAY_MS + hour * HOUR_MS + minute * MS_PER_MIN + second * 1000

\* tzOffsetMinutes, kept as the exact numerator over 60000: asUTC - ts.
tzOffsetMs(ts, tz) ==
  LET p == partsFromTs(ts, tz)
  IN DateUTC(p.day, p.hour, p.minute, p.second) - ts

\* tzOffsetLabel: the sign, hours and minutes it prints, from
\* off = tzOffsetMs / 60000: sign is '+' when off >= 0, hh = floor(|off| / 60),
\* mm = floor(|off| % 60).
tzOffsetLabel(ts, tz) ==
  LET offMs == tzOffsetMs(ts, tz)
      absMs == IF offMs >= 0 THEN offMs ELSE -offMs
  IN [sign |-> IF offMs >= 0 THEN "+" ELSE "-",
      hh |-> absMs \div HOUR_MS,
      mm |-> (absMs % HOUR_MS) \div MS_PER_MIN]

\* zonedMidnightUtcMs: the first instant of the minute scan over
\* [center - 36h, center + 36h] whose civil fields are date 00:00, else the
\* offset-subtraction fallback.
zonedMidnightScanHits(date, tz) ==
  LET start == DateUTC(date, 12, 0, 0) - SCAN_HALF_WINDOW_H * HOUR_MS
  IN {k \in 0..(2 * SCAN_HALF_WINDOW_H * 60) :
        LET p == partsFromTs(start + k * MS_PER_MIN, tz)
        IN p.day = date /\ p.hour = 0 /\ p.minute = 0}

\* Variant of zonedMidnightUtcMs: the fallback returns the naive UTC midnight.
zonedMidnightUtcMs_NaiveFallback(date, tz) ==
  LET start == DateUTC(date, 12, 0, 0) - SCAN_HALF_WINDOW_H * HOUR_MS
      hits == zonedMidnightScanHits(date, tz)
  IN IF hits # {}
     THEN start + (CHOOSE k \in hits : \A j \in hits : k <= j) * MS_PER_MIN
     ELSE DateUTC(date, 0, 0, 0)

zonedMidnightUtcMs(date, tz) ==
  LET start == DateUTC(date, 12, 0, 0) - SCAN_HALF_WINDOW_H * HOUR_MS
      hits == zonedMidnightScanHits(date, tz)
      guess == DateUTC(date, 0, 0, 0)
  IN IF hits # {}
     THEN start + (CHOOSE k \in hits : \A j \in hits : k <= j) * MS_PER_MIN
     ELSE guess - tzOffsetMs(guess, tz)

\* The scan is a pure function of (date, zone); it is tabulated once for the
\* dates the model can reach.
MidnightTable ==
  [d \in (DayLo - 2)..(DayHi + 2), tz \in Zones |-> zonedMidnightUtcMs(d, tz)]

zonedMidnight(date, tz) ==
  IF date \in (DayLo - 2)..(DayHi + 2) /\ tz \in Zones
  THEN MidnightTable[date, tz]
  ELSE zonedMidnightUtcMs(date, tz)

\* ---------------------------------------------------------------- data model
\* A candidate's selection: null, or {start, end} in slot indices.
NoSel == [has |-> FALSE, start |-> 0, end |-> 0]
Sel(s, e) == [has |-> TRUE, start |-> s, end |-> e]

Block(id, name, date, selection) ==
  [id |-> id, name |-> name, date |-> date, selection |-> selection]

City(id, tzId, isCurrent) == [id |-> id, tzId |-> tzId, isCurrent |-> isCurrent]

\* The catalog file data/city-timezones.json (also embedded in the page).
Catalog ==
  << [id |-> "tokyo", tzId |-> "Asia/Tokyo", isCurated |-> TRUE],
     [id |-> "new-york", tzId |-> "America/New_York", isCurated |-> TRUE] >>

\* Intl.supportedValuesOf('timeZone') of a host, and the id that
\* augmentWithIanaTimezones derives from each identifier:
\* 'tz-' + tz.toLowerCase().replace(/[^a-z0-9]+/g, '-').
HostTimeZones == <<"America/New_York", "Asia/Tokyo", "UTC">>

\* The same call on a host that also lists the fixed-offset zones.
EtcTimeZones == <<"Etc/GMT+1", "Etc/GMT-1", "UTC">>

\* The same call on a host that lists eleven fixed-offset zones, in the
\* code-unit order the host returns them in.
GmtTimeZones ==
  <<"Etc/GMT+1", "Etc/GMT+10", "Etc/GMT+11", "Etc/GMT+2", "Etc/GMT+3", "Etc/GMT+4",
    "Etc/GMT+5", "Etc/GMT+6", "Etc/GMT+7", "Etc/GMT+8", "Etc/GMT+9">>

TzSlugId(tz) == Text(<<"t", "z", "-">> \o replaceRuns(toLowerCase(Chars(tz)), FALSE))

\* uid(): an id no live candidate carries.
uid(bs) == CHOOSE n \in 1..(Len(bs) + 1) :
             /\ \A i \in 1..Len(bs) : bs[i].id # n
             /\ \A m \in 1..(n - 1) : \E i \in 1..Len(bs) : bs[i].id = m

\* --------------------------------------------------------- persisted records
\* What localStorage holds under one key: nothing, text that JSON.parse
\* rejects, JSON of another shape, or JSON of the expected shape.
Absent == [kind |-> "absent", gran |-> 0, arr |-> <<>>]
Corrupt == [kind |-> "corrupt", gran |-> 0, arr |-> <<>>]
OtherJson == [kind |-> "other", gran |-> 0, arr |-> <<>>]
ViewJson(g) == [kind |-> "obj", gran |-> g, arr |-> <<>>]
ArrayJson(a) == [kind |-> "array", gran |-> 0, arr |-> a]

\* Variant of loadView: any object with a granularity field is accepted.
loadView_NoValidation(rec, cur) ==
  IF rec.kind = "obj" THEN rec.gran ELSE cur

\* loadPersisted, one record at a time: the loaded value, or the value the
\* state already has when the record is absent, unparseable or invalid.
loadView(rec, cur) ==
  IF rec.kind = "obj" /\ rec.gran \in Granularities THEN rec.gran ELSE cur

loadCities(rec, cur) ==
  CASE rec.kind = "array" -> rec.arr
    [] rec.kind = "absent" -> <<>>
    [] OTHER -> cur

loadBlocks(rec, cur) ==
  CASE rec.kind = "array" -> rec.arr
    [] rec.kind = "absent" -> <<>>
    [] OTHER -> cur

\* saveView / saveCities / saveBlocks: JSON.stringify of the in-memory value.
saveView(v) == ViewJson(v)
saveCities(cs) == ArrayJson(cs)
saveBlocks(bs) == ArrayJson(bs)

\* ------------------------------------------------------------ environment
\* The host at page load: the zone Intl reports for the user ("none" when it
\* reports nothing), whether Intl.supportedValuesOf exists and what it lists,
\* and whether the catalog fetch and the embedded payload deliver the catalog.
DefaultHost ==
  [currentTZ |-> "UTC", supported |-> TRUE, timeZones |-> HostTimeZones,
   fetchOk |-> TRUE, embeddedOk |-> TRUE]
EmbeddedHost ==
  [currentTZ |-> "UTC", supported |-> FALSE, timeZones |-> <<>>,
   fetchOk |-> FALSE, embeddedOk |-> TRUE]
BareHost ==
  [currentTZ |-> "none", supported |-> TRUE, timeZones |-> HostTimeZones,
   fetchOk |-> FALSE, embeddedOk |-> FALSE]
OfflineHost ==
  [currentTZ |-> "Asia/Tokyo", supported |-> FALSE, timeZones |-> <<>>,
   fetchOk |-> FALSE, embeddedOk |-> FALSE]
EtcHost ==
  [currentTZ |-> "Etc/GMT-1", supported |-> TRUE, timeZones |-> EtcTimeZones,
   fetchOk |-> TRUE, embeddedOk |-> TRUE]

GmtHost ==
  [currentTZ |-> "UTC", supported |-> TRUE, timeZones |-> GmtTimeZones,
   fetchOk |-> TRUE, embeddedOk |-> TRUE]

Hosts == {DefaultHost, EmbeddedHost, BareHost, OfflineHost, EtcHost}

\* Values Date.now() takes: day 2 03:00:00.500 UTC and day 3 20:00:00 UTC.
NowSet == {2 * DAY_MS + 3 * HOUR_MS + 500, 3 * DAY_MS + 20 * HOUR_MS}

\* Text typed into the search field.
Queries ==
  {<<>>, <<"t", "o", "k", "y", "o">>, <<"T", "o", "k", "i", "o">>, <<" ", "n", "e", "w", "_", "y", "o", "r", "k", " ">>, <<"g", "m", "t">>, <<"z", "z", "z">>, <<"u", "t", "c">>,
   <<" ", " ">>, <<"g", "m", "t", " ", "9">>}

\* Pointer positions, as clientX - rect.left scaled to minutes of the grid
\* (60 * px / hourWidth); left of the grid, inside it, right of it.
PointerXs == {-30, 450, 1500}

\* Dates typed into a candidate's date field.
DateInputs == {DayLo + 1}

\* A query parameter: absent/empty (kind "none"), or the instant Date.parse
\* gives for it.
NoParam == [kind |-> "none", ms |-> 0]
MsParam(t) == [kind |-> "ms", ms |-> t]

NoUrl == [hasKeys |-> FALSE, cities |-> <<>>, from |-> NoParam, to |-> NoParam]

RangeUrl ==
  [hasKeys |-> TRUE, cities |-> <<"new-york", "bogus", "tokyo">>,
   from |-> MsParam(2 * DAY_MS + HOUR_MS),
   to |-> MsParam(2 * DAY_MS + 4 * HOUR_MS + 30 * MS_PER_MIN)]

ReversedUrl ==
  [hasKeys |-> TRUE, cities |-> <<>>,
   from |-> MsParam(2 * DAY_MS + 12 * HOUR_MS),
   to |-> MsParam(2 * DAY_MS + 10 * HOUR_MS)]

\* from=1970-01-01T00:00:00Z&to=1970-01-01T01:00:00Z: Date.parse gives 0 for
\* the first.
EpochUrl ==
  [hasKeys |-> TRUE, cities |-> <<>>,
   from |-> MsParam(0),
   to |-> MsParam(HOUR_MS)]

Urls == {NoUrl, RangeUrl, ReversedUrl, EpochUrl}

\* Records found in localStorage at page load.
TokyoCity == City("tokyo", "Asia/Tokyo", FALSE)
NewYorkCity == City("new-york", "America/New_York", FALSE)

ThreeCities == <<TokyoCity, NewYorkCity, City("tz-utc", "UTC", FALSE)>>

\* Stored records the interactive model starts from: a first visit, a return
\* visit with three cities and one candidate selected at granularity 15, and
\* a return visit with every city removed and MAX_BLOCKS candidates.
FreshStore == [view |-> Absent, cities |-> Absent, blocks |-> Absent]

ReturningStore ==
  [view |-> ViewJson(15), cities |-> ArrayJson(ThreeCities),
   blocks |-> ArrayJson(<<Block(1, 1, 2, Sel(36, 68))>>)]

FullStore ==
  [view |-> ViewJson(30), cities |-> ArrayJson(<<>>),
   blocks |-> ArrayJson([i \in 1..MAX_BLOCKS |-> Block(i, i, 2, NoSel)])]

\* A view record written by another version of the page: a granularity the
\* page does not offer.
OddViewStore == [view |-> ViewJson(45), cities |-> Absent, blocks |-> Absent]

\* Every shape each record can have at page load, for the startup model.
StoredViews == {Absent, Corrupt, OtherJson, ViewJson(45), ViewJson(15)}
StoredCities == {Absent, Corrupt, OtherJson, ArrayJson(ThreeCities)}
StoredBlocks ==
  {Absent, Corrupt, OtherJson,
   ArrayJson(<<Block(1, 1, 2, Sel(36, 68))>>),
   ArrayJson([i \in 1..(MAX_BLOCKS + 1) |-> Block(i, i, 2, NoSel)])}

\* ------------------------------------------------------------------- state
VARIABLES
  pc,          \* "boot", "loading" (awaiting loadDataset), "ready"
  host,        \* the environment of this page load
  url,         \* location.search of this page load
  store,       \* localStorage: the records wt-view, wt-cities, wt-blocks
  view,        \* state.view.granularity
  cities,      \* state.cities
  blocks,      \* state.blocks
  dataset,     \* state.dataset
  currentTZ,   \* state.currentTZ
  dom,         \* the rendered candidates: one closure of renderBlock each
  urlPending,  \* the setTimeout(applyUrlParams) of init has not fired yet
  steps,       \* operations handled since startup
  lastOp,      \* the handler that ran last
  loadLog,     \* the stages of loadDataset that have run, in order
  searchIndex, \* the module-level searchIndex: null, or the ids it maps
  results,     \* the items listed in #search-results
  calc,        \* a call of a pure function: its arguments, then its result
  timers,      \* the intervals setInterval has registered, by callback
  objects      \* per candidate, the identity of its date and selection objects

vars == <<pc, host, url, store, view, cities, blocks, dataset, currentTZ, dom,
          urlPending, steps, lastOp, loadLog, searchIndex, results, calc, timers, objects>>

\* -------------------------------------------------------- dataset loading
RECURSIVE augmentAdded(_, _)
augmentAdded(tzs, existing) ==
  IF tzs = <<>> THEN <<>>
  ELSE IF Head(tzs) \in existing THEN augmentAdded(Tail(tzs), existing)
       ELSE <<[id |-> TzSlugId(Head(tzs)), tzId |-> Head(tzs), isCurated |-> FALSE]>>
            \o augmentAdded(Tail(tzs), existing)

augmentWithIanaTimezones(ds, h) ==
  IF ~h.supported \/ h.timeZones = <<>> THEN ds
  ELSE ds \o augmentAdded(h.timeZones, {ds[i].tzId : i \in 1..Len(ds)})

\* Variant of loadDataset: the embedded payload is never read.
loadDataset_NoFallback(h) ==
  augmentWithIanaTimezones(IF h.fetchOk THEN Catalog ELSE <<>>, h)

loadDataset(h) ==
  LET fetched == IF h.fetchOk THEN Catalog ELSE <<>>
      loaded == IF fetched # <<>> THEN fetched
                ELSE IF h.embeddedOk THEN Catalog ELSE <<>>
  IN augmentWithIanaTimezones(loaded, h)

\* The stages loadDataset goes through once the fetch has settled.
loadStagesAfterFetch(h) ==
  (IF ~h.fetchOk THEN <<"embedded">> ELSE <<>>) \o <<"augment", "index">>

\* searchIndex: null until buildSearchIndex, then a Map keyed by item id
\* (the value kept for an id is buildIndexForItem of its item).
NullIndex == [built |-> FALSE, ids |-> {}]

\* Variant of buildSearchIndex: only the curated items are indexed.
buildSearchIndex_CuratedOnly(ds) ==
  [built |-> TRUE, ids |-> {ds[i].id : i \in {j \in 1..Len(ds) : ds[j].isCurated}}]

buildSearchIndex(ds) ==
  [built |-> TRUE, ids |-> {ds[i].id : i \in 1..Len(ds)}]

datasetById(ds, id) == findIndexById(ds, id)

datasetByTz(ds, tz) ==
  IF \E i \in 1..Len(ds) : ds[i].tzId = tz
  THEN CHOOSE i \in 1..Len(ds) : ds[i].tzId = tz /\ \A j \in 1..(i - 1) : ds[j].tzId # tz
  ELSE 0

\* ------------------------------------------------------------------ search
\* The text fields of a catalog record, in the order buildIndexForItem joins
\* them: city_ja, city_en, country_ja, country_en, tzId, then the aliases.
\* A curated record carries the fields of the catalog file; an augmented
\* record gets them from its zone identifier.
RECURSIVE splitOn(_, _, _)
\* String.prototype.split on one separator character: cur is the piece being
\* read.
splitOn(cs, sep, cur) ==
  IF cs = <<>> THEN <<cur>>
  ELSE IF Head(cs) = sep THEN <<cur>> \o splitOn(Tail(cs), sep, <<>>)
       ELSE splitOn(Tail(cs), sep, Append(cur, Head(cs)))

\* String.prototype.replaceAll('_', ' ').
underscoresToSpaces(cs) == [i \in 1..Len(cs) |-> IF cs[i] = "_" THEN " " ELSE cs[i]]

augmentedFields(tz) ==
  LET parts == splitOn(Chars(tz), "/", <<>>)
      last == parts[Len(parts)]
      city == underscoresToSpaces(IF last # <<>> THEN last ELSE Chars(tz))
      region == underscoresToSpaces(IF Len(parts) > 1 THEN parts[1] ELSE <<>>)
  IN <<city, city, region, region, Chars(tz)>> \o parts

CatalogFields(id) ==
  CASE id = "tokyo" ->
         <<<<"T", "o", "k", "y", "o">>, <<"T", "o", "k", "y", "o">>, <<"J", "a", "p", "a", "n">>, <<"J", "a", "p", "a", "n">>, <<"A", "s", "i", "a", "/", "T", "o", "k", "y", "o">>, <<"J", "P">>>>
    [] id = "new-york" ->
         <<<<"N", "e", "w", " ", "Y", "o", "r", "k">>, <<"N", "e", "w", " ", "Y", "o", "r", "k">>, <<"U", "n", "i", "t", "e", "d", " ", "S", "t", "a", "t", "e", "s">>, <<"U", "n", "i", "t", "e", "d", " ", "S", "t", "a", "t", "e", "s">>, <<"A", "m", "e", "r", "i", "c", "a", "/", "N", "e", "w", "_", "Y", "o", "r", "k">>, <<"U", "S">>>>

itemFields(it) == IF it.isCurated THEN CatalogFields(it.id) ELSE augmentedFields(it.tzId)

RECURSIVE joinWithSpaces(_)
\* Array.prototype.join(' ').
joinWithSpaces(fs) ==
  IF fs = <<>> THEN <<>>
  ELSE IF Len(fs) = 1 THEN fs[1]
       ELSE fs[1] \o <<" ">> \o joinWithSpaces(Tail(fs))

RECURSIVE unifySeparators(_, _)
\* replace(/[_\s]+/g, ' ').
unifySeparators(cs, inRun) ==
  IF cs = <<>> THEN <<>>
  ELSE IF Head(cs) \in {"_", " "}
       THEN IF inRun THEN unifySeparators(Tail(cs), TRUE)
            ELSE <<" ">> \o unifySeparators(Tail(cs), TRUE)
       ELSE <<Head(cs)>> \o unifySeparators(Tail(cs), FALSE)

\* String.prototype.trim.
trim(cs) ==
  LET keep == {i \in 1..Len(cs) : cs[i] # " "}
  IN IF keep = {} THEN <<>>
     ELSE SubSeq(cs, CHOOSE i \in keep : \A j \in keep : i <= j,
                     CHOOSE i \in keep : \A j \in keep : i >= j)

\* normalize, on text of letters, digits, spaces and ASCII punctuation (the
\* Unicode normalisations and the dash and diacritic replacements leave such
\* text as it is).
normalize(cs) == trim(unifySeparators(toLowerCase(cs), FALSE))

RECURSIVE nonEmpty(_)
\* filter(Boolean) on an array of strings.
nonEmpty(ts) ==
  IF ts = <<>> THEN <<>>
  ELSE IF Head(ts) = <<>> THEN nonEmpty(Tail(ts))
       ELSE <<Head(ts)>> \o nonEmpty(Tail(ts))

\* tokenize: the normalized query split at spaces.
tokenize(q) ==
  LET n == normalize(q)
  IN IF n = <<>> THEN <<>> ELSE nonEmpty(splitOn(n, " ", <<>>))

RECURSIVE levRow(_, _, _, _, _)
\* One row of the dynamic programme of levenshtein: prev is the row of the
\* previous character of a, acc the part of the new row built so far.
levRow(prev, acc, ch, b, j) ==
  IF j > Len(b) THEN acc
  ELSE LET cost == IF ch = b[j] THEN 0 ELSE 1
           v == Min(Min(prev[j + 1] + 1, acc[j] + 1), prev[j] + cost)
       IN levRow(prev, Append(acc, v), ch, b, j + 1)

RECURSIVE levRows(_, _, _, _)
levRows(a, b, i, prev) ==
  IF i > Len(a) THEN prev
  ELSE levRows(a, b, i + 1, levRow(prev, <<i>>, a[i], b, 1))

levenshtein(a, b) ==
  IF a = b THEN 0
  ELSE IF Len(a) = 0 THEN Len(b)
  ELSE IF Len(b) = 0 THEN Len(a)
  ELSE levRows(a, b, 1, [j \in 1..(Len(b) + 1) |-> j - 1])[Len(b) + 1]

startsWith(text, t) == Len(t) <= Len(text) /\ SubSeq(text, 1, Len(t)) = t

includes(text, t) ==
  \E k \in 0..(Len(text) - Len(t)) : SubSeq(text, k + 1, k + Len(t)) = t

\* buildIndexForItem: the normalized text and its tokens, split at spaces
\* and slashes.
buildIndexForItem(it) ==
  LET base == normalize(joinWithSpaces(itemFields(it)))
      words == splitOn(base, " ", <<>>)
      pieces == UNION {{splitOn(words[i], "/", <<>>)[k] :
                          k \in 1..Len(splitOn(words[i], "/", <<>>))} :
                       i \in 1..Len(words)}
  IN [base |-> base, baseTokens |-> pieces \ {<<>>}]

\* searchIndex.get(id): Map.set keeps, for an id, the value set last.
indexGet(ds, idx, id) ==
  LET at == {k \in 1..Len(ds) : ds[k].id = id}
  IN buildIndexForItem(ds[CHOOSE k \in at : \A j \in at : k >= j])

RECURSIVE tokenScore(_, _)
\* The first loop of scoreItem.
tokenScore(idx, tokens) ==
  IF tokens = <<>> THEN 0
  ELSE LET t == Head(tokens)
       IN (IF startsWith(idx.base, t) THEN 15 ELSE 0)
          + (IF t \in idx.baseTokens THEN 12 ELSE 0)
          + (IF includes(idx.base, <<" ">> \o t) THEN 10
             ELSE IF includes(idx.base, t) THEN 6 ELSE 0)
          + tokenScore(idx, Tail(tokens))

RECURSIVE fuzzyScore(_, _)
\* The fuzzy loop of scoreItem: best is Infinity when there is no candidate.
fuzzyScore(candidates, tokens) ==
  IF tokens = <<>> THEN 0
  ELSE LET t == Head(tokens)
           ds == {levenshtein(t, w) : w \in candidates}
       IN (IF \E d \in ds : d <= 1 THEN 6
           ELSE IF 2 \in ds THEN 3 ELSE 0)
          + fuzzyScore(candidates, Tail(tokens))

\* scoreItem for a query without kana (kanaTokens is then empty).
scoreItem(ds, idx, it, tokens) ==
  IF it.id \notin idx.ids THEN 0
  ELSE LET ix == indexGet(ds, idx, it.id)
           s1 == tokenScore(ix, tokens)
           candidates == {w \in ix.baseTokens : Len(w) >= 3 /\ Len(w) <= 12}
           s2 == IF s1 < 10 THEN s1 + fuzzyScore(candidates, tokens) ELSE s1
       IN IF it.isCurated THEN s2 + 3 ELSE s2

\* The order localeCompare gives the characters of normalized text: space,
\* punctuation, symbols, digits, letters.
charRank(c) ==
  CASE c = " " -> 1
    [] c = "-" -> 2
    [] c = "/" -> 3
    [] c = "+" -> 4
    [] c \in Digits -> 10 + (CHOOSE d \in 0..9 : ToString(d) = c)
    [] OTHER -> 20 + (CHOOSE k \in 1..Len(LowerLetters) : LowerLetters[k] = c)

RECURSIVE localeCompare(_, _)
\* a.localeCompare(b): negative, zero or positive.
localeCompare(a, b) ==
  IF a = <<>> THEN (IF b = <<>> THEN 0 ELSE -1)
  ELSE IF b = <<>> THEN 1
  ELSE IF charRank(Head(a)) # charRank(Head(b)) THEN charRank(Head(a)) - charRank(Head(b))
  ELSE localeCompare(Tail(a), Tail(b))

\* The comparator of doSearch on {it, score} pairs.
searchCompare(a, b) ==
  IF b.score # a.score THEN b.score - a.score
  ELSE IF b.it.isCurated # a.it.isCurated
       THEN (IF b.it.isCurated THEN 1 ELSE 0) - (IF a.it.isCurated THEN 1 ELSE 0)
       ELSE localeCompare(normalize(itemFields(a.it)[1]), normalize(itemFields(b.it)[1]))

RECURSIVE insertSorted(_, _)
\* Array.prototype.sort is stable: x goes after every element that does not
\* compare greater than it.
insertSorted(sorted, x) ==
  IF sorted = <<>> THEN <<x>>
  ELSE IF searchCompare(Head(sorted), x) <= 0
       THEN <<Head(sorted)>> \o insertSorted(Tail(sorted), x)
       ELSE <<x>> \o sorted

RECURSIVE sortScored(_, _)
sortScored(xs, sorted) ==
  IF xs = <<>> THEN sorted ELSE sortScored(Tail(xs), insertSorted(sorted, Head(xs)))

RECURSIVE positiveScores(_)
\* filter(x => x.score > 0).
positiveScores(xs) ==
  IF xs = <<>> THEN <<>>
  ELSE IF Head(xs).score > 0 THEN <<Head(xs)>> \o positiveScores(Tail(xs))
       ELSE positiveScores(Tail(xs))

\* Variant of doSearch: the sorted list is not cut to ten entries.
doSearch_NoSlice(ds, idx, q) ==
  LET tokens == tokenize(q)
      scored == [k \in 1..Len(ds) |-> [it |-> ds[k], score |-> scoreItem(ds, idx, ds[k], tokens)]]
      sorted == sortScored(positiveScores(scored), <<>>)
  IN IF tokens = <<>> THEN <<>> ELSE [k \in 1..Len(sorted) |-> sorted[k].it]

\* doSearch: the items listed for query q.
doSearch(ds, idx, q) ==
  LET tokens == tokenize(q)
      scored == [k \in 1..Len(ds) |-> [it |-> ds[k], score |-> scoreItem(ds, idx, ds[k], tokens)]]
      sorted == sortScored(positiveScores(scored), <<>>)
      top == SubSeq(sorted, 1, Min(Len(sorted), 10))
  IN IF tokens = <<>> THEN <<>> ELSE [k \in 1..Len(top) |-> top[k].it]

\* ------------------------------------------------------------------ cities
\* addCity: nothing when the id is already tracked, else push.
addCityResult(cs, city) ==
  IF \E i \in 1..Len(cs) : cs[i].id = city.id THEN cs
  ELSE Append(cs, City(city.id, city.tzId, city.isCurrent))

removeCityResult(cs, id) == SelectSeqBy(cs, id)

\* Variant of dropResult: the two rows trade places.
dropResult_Swap(cs, srcId, dstIdx) ==
  LET srcIdx == findIndexById(cs, srcId)
  IN IF srcIdx >= 1 /\ dstIdx >= 1 /\ srcIdx # dstIdx
     THEN [cs EXCEPT ![srcIdx] = cs[dstIdx], ![dstIdx] = cs[srcIdx]]
     ELSE cs

\* The drop handler of the row at position dstIdx, for dragged id srcId.
dropResult(cs, srcId, dstIdx) ==
  LET srcIdx == findIndexById(cs, srcId)
  IN IF srcIdx >= 1 /\ dstIdx >= 1 /\ srcIdx # dstIdx
     THEN spliceIn(spliceOut(cs, srcIdx), dstIdx, cs[srcIdx])
     ELSE cs

topTz(cs) == IF Len(cs) > 0 THEN cs[1].tzId ELSE "UTC"

\* ---------------------------------------------------------------- candidates
\* Variant of ensureAtLeastOneBlock: never creates a candidate.
ensureAtLeastOneBlock_Never(bs, cs, now) == bs

\* Variant of ensureAtLeastOneBlock: the length test is off by one.
ensureAtLeastOneBlock_OffByOne(bs, cs, now) ==
  IF Len(bs) <= 1
  THEN Append(bs, Block(uid(bs), Len(bs) + 1, partsFromTs(now, topTz(cs)).day, NoSel))
  ELSE bs

ensureAtLeastOneBlock(bs, cs, now) ==
  IF Len(bs) = 0
  THEN <<Block(uid(bs), 1, partsFromTs(now, topTz(cs)).day, NoSel)>>
  ELSE bs

\* Variant of addBlockResult: the new candidate starts without a selection.
addBlockResult_NullSelection(bs) ==
  IF Len(bs) >= MAX_BLOCKS THEN bs
  ELSE LET prev == bs[Len(bs)]
       IN Append(bs, Block(uid(bs), Len(bs) + 1, prev.date, NoSel))

addBlockResult(bs) ==
  IF Len(bs) >= MAX_BLOCKS THEN bs
  ELSE LET prev == bs[Len(bs)]
       IN Append(bs, Block(uid(bs), Len(bs) + 1, prev.date, prev.selection))

\* deleteBlock up to its first saveBlocks: filter, then reindex the names.
deleteBlockResult(bs, id) ==
  LET kept == SelectSeqBy(bs, id)
  IN [i \in 1..Len(kept) |-> [kept[i] EXCEPT !.name = i]]

\* changeBlockDay: the new date of a candidate.
changeBlockDayResult(date, deltaDays, cs) ==
  LET tz == topTz(cs)
      start == partsFromTs(zonedMidnight(date, tz), tz)
  IN start.day + deltaDays

\* getUTCDay of the calendar date.
weekdayOf(date) == (date + 4) % 7

\* ----------------------------------------------------------------- rendering
\* renderBlocks: nothing while no city is tracked, else one renderBlock
\* closure per candidate, capturing the granularity and starting idle.
Closure(g) == [gran |-> g, dragging |-> "idle", dragAnchorStart |-> 0]

renderBlocks(cs, bs, g) ==
  IF Len(cs) = 0 THEN <<>> ELSE [i \in 1..Len(bs) |-> Closure(g)]

totalSlots(g) == 24 * (60 \div g)

\* posToSlot of a closure that captured granularity g.
posToSlot(x, g) ==
  clamp(MathRound(clamp(x, 0, DAY_MIN), g), 0, totalSlots(g))

\* Variant of onPointerMoveSel: the final swap of start and end is missing.
onPointerMoveSel_NoSwap(sel0, dragging, slot) ==
  LET sel1 == IF sel0.has THEN sel0 ELSE Sel(slot, slot)
  IN CASE dragging = "range" -> [sel1 EXCEPT !.end = slot]
       [] dragging = "start" -> [sel1 EXCEPT !.start = Min(slot, sel1.end - 1)]
       [] dragging = "end" -> [sel1 EXCEPT !.end = Max(slot, sel1.start + 1)]
       [] OTHER -> sel1

\* onPointerMove while dragging: the new selection.
onPointerMoveSel(sel0, dragging, slot) ==
  LET sel1 == IF sel0.has THEN sel0 ELSE Sel(slot, slot)
      sel2 == CASE dragging = "range" -> [sel1 EXCEPT !.end = slot]
                [] dragging = "start" -> [sel1 EXCEPT !.start = Min(slot, sel1.end - 1)]
                [] dragging = "end" -> [sel1 EXCEPT !.end = Max(slot, sel1.start + 1)]
                [] OTHER -> sel1
  IN IF sel2.end < sel2.start THEN Sel(sel2.end, sel2.start) ELSE sel2

\* pointerdown up to its call of onPointerMove: the selection and the closure.
pointerDownSel(sel0, target, slot) ==
  IF target = "range" THEN Sel(slot, slot) ELSE sel0

pointerDownAnchor(sel0, target, slot, anchor0) ==
  IF target = "range" THEN slot
  ELSE IF sel0.has THEN sel0.start ELSE anchor0

\* ------------------------------------------------------------ URL parameters
RECURSIVE urlAddCities(_, _, _)
urlAddCities(ids, ds, cs) ==
  IF ids = <<>> THEN cs
  ELSE LET k == datasetById(ds, Head(ids))
           next == IF k # 0 /\ ~(\E i \in 1..Len(cs) : cs[i].id = Head(ids))
                   THEN addCityResult(cs, [id |-> ds[k].id, tzId |-> ds[k].tzId,
                                           isCurrent |-> FALSE])
                   ELSE cs
       IN urlAddCities(Tail(ids), ds, next)

\* parseISOToMs results are tested for truthiness: null and 0 are both falsy.
urlRangeApplies(u, bs) ==
  /\ u.from.kind # "none" /\ u.to.kind # "none" /\ Len(bs) > 0
  /\ u.from.kind = "ms" /\ u.from.ms # 0
  /\ u.to.kind = "ms" /\ u.to.ms # 0

urlFirstBlock(b, u, cs, g) ==
  LET tz == topTz(cs)
      date == partsFromTs(u.from.ms, tz).day
      anchor == zonedMidnight(date, tz)
      start == MathRound(u.from.ms - anchor, g * MS_PER_MIN)
      end == MathRound(u.to.ms - anchor, g * MS_PER_MIN)
  IN [b EXCEPT !.date = date,
               !.selection = Sel(clamp(start, 0, (24 * 60) \div g),
                                 clamp(end, 0, (24 * 60) \div g))]

\* ------------------------------------------------------------------- timers
\* The intervals registered and never cleared (the program calls no
\* clearInterval): how many run updateClocks every second, and how many run
\* a renderBlock closure's refresh every 30 seconds.
NoTimers == [clock |-> 0, now |-> 0]

\* bindEvents: setInterval(updateClocks, 1000).
setIntervalClock(t) == [t EXCEPT !.clock = @ + 1]

\* renderBlocks: each renderBlock it calls registers its nowTimer.
setIntervalNow(t, rendered) == [t EXCEPT !.now = @ + Len(rendered)]

\* applyUrlParams: each of its n effective addCity calls ends with render(),
\* which registers one nowTimer per candidate (cities are tracked by then).
urlAddTimers(t, n, bs) == [t EXCEPT !.now = @ + n * Len(bs)]

\* ------------------------------------------------ candidate object identity
\* Each element of state.blocks holds a date object and a selection object (or
\* null). `objects` records, per candidate, which object each field holds. An
\* object is named by the first field that holds it, the fields counted 2i-1
\* for candidate i's date and 2i for its selection; 0 stands for null. Two
\* fields with the same name hold the same object, so a write into that
\* object shows through both.
ObjectRefs(d, s) == [date |-> d, selection |-> s]

fieldRef(rs, k) == IF k % 2 = 1 THEN rs[(k + 1) \div 2].date ELSE rs[k \div 2].selection

firstHolder(rs, k) ==
  CHOOSE j \in 1..k : /\ fieldRef(rs, j) = fieldRef(rs, k)
                      /\ \A m \in 1..(j - 1) : fieldRef(rs, m) # fieldRef(rs, k)

\* The names after an operation; a negative name is an object just created.
nameObjects(rs) ==
  [i \in 1..Len(rs) |->
     ObjectRefs(firstHolder(rs, 2 * i - 1),
                IF rs[i].selection = 0 THEN 0 ELSE firstHolder(rs, 2 * i))]

\* JSON.parse in loadPersisted: every object of the parsed array is new.
parsedObjects(bs) ==
  [i \in 1..Len(bs) |-> ObjectRefs(2 * i - 1, IF bs[i].selection.has THEN 2 * i ELSE 0)]

\* The push of ensureAtLeastOneBlock, bs being the candidates it leaves: the
\* candidate it pushed holds a new date object and a null selection.
ensureObjects(rs, bs) ==
  IF Len(bs) > Len(rs) THEN nameObjects(Append(rs, ObjectRefs(-1, 0))) ELSE rs

\* Variant of cloneObjects: the copy holds the objects of the last candidate.
cloneObjects_Shared(rs, bs) == nameObjects(Append(rs, rs[Len(rs)]))

\* The copy of addBlock: { ...prev.date } and { ...prev.selection } are new
\* objects, a null selection stays null.
cloneObjects(rs, bs) ==
  nameObjects(Append(rs, ObjectRefs(-1, IF bs[Len(bs)].selection.has THEN -2 ELSE 0)))

\* The filter of deleteBlock keeps the objects of the candidates it keeps.
deleteObjects(rs, bs, id) ==
  LET kept == SelectSeq([k \in 1..Len(bs) |-> k], LAMBDA k : bs[k].id # id)
  IN nameObjects([n \in 1..Len(kept) |-> rs[kept[n]]])

\* block.date = {...}: candidate i gets a new date object.
assignDate(rs, i) == nameObjects([rs EXCEPT ![i].date = -1])

\* block.selection = {...}: candidate i gets a new selection object.
assignSelection(rs, i) == nameObjects([rs EXCEPT ![i].selection = -2])

\* block.selection.start = ..., block.selection.end = ...: a write into the
\* selection object of candidate i, seen by every candidate that holds it.
mutateSelection(bs, rs, i, v) ==
  [j \in 1..Len(bs) |->
     IF rs[j].selection = rs[i].selection THEN [bs[j] EXCEPT !.selection = v] ELSE bs[j]]

\* ------------------------------------------------------------------ startup
\* The page before DOMContentLoaded: the state object as constructed.
Constructed ==
  /\ pc = "boot"
  /\ view = DEFAULT_GRANULARITY
  /\ cities = <<>>
  /\ blocks = <<>>
  /\ dataset = <<>>
  /\ currentTZ = "none"
  /\ dom = <<>>
  /\ urlPending = FALSE
  /\ steps = 0
  /\ lastOp = "none"
  /\ loadLog = <<>>
  /\ searchIndex = NullIndex
  /\ results = <<>>
  /\ timers = NoTimers
  /\ objects = <<>>

\* No pure-function call is being followed.
NoCalc == [fn |-> "none"]

PageLoad(st, h, u) == [store |-> st, host |-> h, url |-> u]

\* The page loads of the interactive model.
PageLoads ==
  { PageLoad(FreshStore, DefaultHost, NoUrl),
    PageLoad(FreshStore, EmbeddedHost, RangeUrl),
    PageLoad(FreshStore, BareHost, ReversedUrl),
    PageLoad(ReturningStore, DefaultHost, NoUrl),
    PageLoad(ReturningStore, DefaultHost, RangeUrl),
    PageLoad(ReturningStore, EmbeddedHost, ReversedUrl),
    PageLoad(FullStore, DefaultHost, NoUrl),
    PageLoad(OddViewStore, BareHost, NoUrl) }

Init ==
  /\ Constructed
  /\ calc = NoCalc
  /\ \E l \in PageLoads : store = l.store /\ host = l.host /\ url = l.url

\* The startup model: every shape of every record.
InitLoad ==
  /\ Constructed
  /\ calc = NoCalc
  /\ host \in Hosts
  /\ url \in Urls
  /\ store \in [view : StoredViews, cities : StoredCities, blocks : StoredBlocks]

\* Variant of ensureSaved: the created candidate is not saved.
ensureSaved_Skip(st, bs0, bs1) == st

\* saveBlocks inside ensureAtLeastOneBlock: only when it created a candidate.
ensureSaved(st, bs0, bs1) ==
  IF Len(bs0) = 0 THEN [st EXCEPT !.blocks = saveBlocks(bs1)] ELSE st

\* init up to the first await of loadDataset: detectCurrentTZ, loadPersisted,
\* state.dataset = [] and the fetch request.
StartInit ==
  /\ pc = "boot"
  /\ currentTZ' = host.currentTZ
  /\ view' = loadView(store.view, view)
  /\ cities' = loadCities(store.cities, cities)
  /\ blocks' = loadBlocks(store.blocks, blocks)
  /\ objects' = parsedObjects(loadBlocks(store.blocks, blocks))
  /\ pc' = "loading"
  /\ lastOp' = "loadPersisted"
  /\ dataset' = <<>>
  /\ loadLog' = <<"fetch">>
  /\ UNCHANGED <<timers, searchIndex, results, calc, host, url, store, dom, urlPending, steps>>

\* init once the fetch has settled: the rest of loadDataset, then
\* ensureAtLeastOneBlock, bindEvents, render, and the timer for applyUrlParams.
FinishInit ==
  /\ pc = "loading"
  /\ \E now \in NowSet :
       LET bs == ensureAtLeastOneBlock(blocks, cities, now)
       IN /\ blocks' = bs
          /\ store' = ensureSaved(store, blocks, bs)
          /\ dom' = renderBlocks(cities, bs, view)
          /\ timers' = setIntervalNow(setIntervalClock(timers), renderBlocks(cities, bs, view))
          /\ objects' = ensureObjects(objects, bs)
  /\ dataset' = loadDataset(host)
  /\ loadLog' = loadLog \o loadStagesAfterFetch(host)
  /\ searchIndex' = buildSearchIndex(loadDataset(host))
  /\ urlPending' = TRUE
  /\ pc' = "ready"
  /\ lastOp' = "init"
  /\ UNCHANGED <<results, calc, host, url, view, cities, currentTZ, steps>>

\* The timer callback: applyUrlParams(); render().
ApplyUrlParamsTimer ==
  /\ pc = "ready" /\ urlPending
  /\ urlPending' = FALSE
  /\ lastOp' = "applyUrlParams"
  /\ LET cs == IF url.hasKeys THEN urlAddCities(url.cities, dataset, cities) ELSE cities
         applies == url.hasKeys /\ urlRangeApplies(url, blocks)
         bs == IF applies
               THEN [blocks EXCEPT ![1] = urlFirstBlock(blocks[1], url, cs, view)]
               ELSE blocks
         st1 == IF cs # cities THEN [store EXCEPT !.cities = saveCities(cs)] ELSE store
         st2 == IF applies THEN [st1 EXCEPT !.blocks = saveBlocks(bs)] ELSE st1
     IN /\ cities' = cs
        /\ blocks' = bs
        /\ store' = st2
        /\ dom' = renderBlocks(cs, bs, view)
        /\ timers' = setIntervalNow(urlAddTimers(timers, Len(cs) - Len(cities), blocks),
                                    renderBlocks(cs, bs, view))
        /\ objects' = IF applies THEN assignSelection(assignDate(objects, 1), 1) ELSE objects
  /\ UNCHANGED <<loadLog, searchIndex, results, calc, pc, host, url, view, dataset, currentTZ, steps>>

\* ------------------------------------------------------------- operations
Ready == pc = "ready" /\ steps < MaxSteps
Step(op) == steps' = steps + 1 /\ lastOp' = op

\* Variant of addCity: the check for a tracked id is missing.
addCity_NoCheck(city) ==
  \E now \in NowSet :
    LET cs == Append(cities, City(city.id, city.tzId, city.isCurrent))
        bs == ensureAtLeastOneBlock(blocks, cs, now)
    IN /\ cities' = cs
       /\ blocks' = bs
       /\ store' = ensureSaved([store EXCEPT !.cities = saveCities(cs)], blocks, bs)
       /\ dom' = renderBlocks(cs, bs, view)
       /\ timers' = setIntervalNow(timers, renderBlocks(cs, bs, view))
       /\ objects' = ensureObjects(objects, bs)

\* addCity(city) with everything it calls.
addCity(city) ==
  IF \E i \in 1..Len(cities) : cities[i].id = city.id
  THEN UNCHANGED <<cities, store, blocks, dom, timers, objects>>
  ELSE \E now \in NowSet :
         LET cs == addCityResult(cities, city)
             bs == ensureAtLeastOneBlock(blocks, cs, now)
         IN /\ cities' = cs
            /\ blocks' = bs
            /\ store' = ensureSaved([store EXCEPT !.cities = saveCities(cs)], blocks, bs)
            /\ dom' = renderBlocks(cs, bs, view)
            /\ timers' = setIntervalNow(timers, renderBlocks(cs, bs, view))
            /\ objects' = ensureObjects(objects, bs)

\* A click on a search result (or a map result): addCity(it).
AddCityFromSearch ==
  /\ Ready /\ Step("addCity")
  /\ \E k \in 1..Len(dataset) :
       addCity([id |-> dataset[k].id, tzId |-> dataset[k].tzId, isCurrent |-> FALSE])
  /\ UNCHANGED <<loadLog, searchIndex, results, calc, pc, host, url, view, dataset, currentTZ, urlPending>>

\* The input handler of the search field: doSearch(e.target.value).
Search ==
  /\ Ready /\ Step("search")
  /\ \E q \in Queries : results' = doSearch(dataset, searchIndex, q)
  /\ UNCHANGED <<objects, loadLog, searchIndex, calc, pc, host, url, store, view, cities, blocks,
                 dataset, currentTZ, dom, urlPending, timers>>

\* A click on a listed search result: addCity(it); closeSearch().
AddCityFromResults ==
  /\ Ready /\ Step("addCity")
  /\ \E k \in 1..Len(results) :
       addCity([id |-> results[k].id, tzId |-> results[k].tzId, isCurrent |-> FALSE])
  /\ UNCHANGED <<loadLog, searchIndex, results, calc, pc, host, url, view, dataset, currentTZ, urlPending>>

\* The "add current location" button, shown while state.currentTZ is set and
\* no tracked city has that zone.
AddCurrentLocation ==
  /\ Ready /\ Step("addCurrent")
  /\ currentTZ # "none"
  /\ ~(\E i \in 1..Len(cities) : cities[i].tzId = currentTZ)
  /\ LET k == datasetByTz(dataset, currentTZ)
     IN IF k # 0
        THEN addCity([id |-> dataset[k].id, tzId |-> dataset[k].tzId, isCurrent |-> FALSE])
        ELSE addCity([id |-> "current", tzId |-> currentTZ, isCurrent |-> TRUE])
  /\ UNCHANGED <<loadLog, searchIndex, results, calc, pc, host, url, view, dataset, currentTZ, urlPending>>

RemoveCity ==
  /\ Ready /\ Step("removeCity")
  /\ \E i \in 1..Len(cities) :
       LET cs == removeCityResult(cities, cities[i].id)
       IN /\ cities' = cs
          /\ store' = [store EXCEPT !.cities = saveCities(cs)]
          /\ dom' = renderBlocks(cs, blocks, view)
          /\ timers' = setIntervalNow(timers, renderBlocks(cs, blocks, view))
  /\ UNCHANGED <<objects, loadLog, searchIndex, results, calc, pc, host, url, view, blocks, dataset, currentTZ, urlPending>>

\* A drop on the city row at position dstIdx of the text srcId.
DropCity(dstIdx, srcId) ==
  /\ Ready /\ Step("drop")
  /\ dstIdx \in 1..Len(cities)
  /\ LET cs == dropResult(cities, srcId, dstIdx)
         moved == findIndexById(cities, srcId) >= 1 /\ findIndexById(cities, srcId) # dstIdx
     IN /\ cities' = cs
        /\ store' = IF moved THEN [store EXCEPT !.cities = saveCities(cs)] ELSE store
        /\ dom' = IF moved THEN renderBlocks(cs, blocks, view) ELSE dom
        /\ timers' = IF moved THEN setIntervalNow(timers, renderBlocks(cs, blocks, view)) ELSE timers
  /\ UNCHANGED <<objects, loadLog, searchIndex, results, calc, pc, host, url, view, blocks, dataset, currentTZ, urlPending>>

\* The text a drop can carry: the id of a dragged row, or anything else.
DropTexts == {cities[i].id : i \in 1..Len(cities)} \cup {"junk"}

DropCityAny == \E dstIdx \in 1..Len(cities) : \E srcId \in DropTexts : DropCity(dstIdx, srcId)

addBlock ==
  /\ Ready /\ Step("addBlock")
  /\ IF Len(blocks) >= MAX_BLOCKS
     THEN UNCHANGED <<blocks, store, dom, timers, objects>>
     ELSE LET bs == addBlockResult(blocks)
          IN /\ blocks' = bs
             /\ store' = [store EXCEPT !.blocks = saveBlocks(bs)]
             /\ dom' = renderBlocks(cities, bs, view)
             /\ timers' = setIntervalNow(timers, renderBlocks(cities, bs, view))
             /\ objects' = cloneObjects(objects, blocks)
  /\ UNCHANGED <<loadLog, searchIndex, results, calc, pc, host, url, view, cities, dataset, currentTZ, urlPending>>

\* The delete button of rendered candidate i.
deleteBlock ==
  /\ Ready /\ Step("deleteBlock")
  /\ \E i \in 1..Len(dom) : \E now \in NowSet :
       LET bs1 == deleteBlockResult(blocks, blocks[i].id)
           st1 == [store EXCEPT !.blocks = saveBlocks(bs1)]
           bs2 == ensureAtLeastOneBlock(bs1, cities, now)
       IN /\ blocks' = bs2
          /\ store' = ensureSaved(st1, bs1, bs2)
          /\ dom' = renderBlocks(cities, bs2, view)
          /\ timers' = setIntervalNow(timers, renderBlocks(cities, bs2, view))
          /\ objects' = ensureObjects(deleteObjects(objects, blocks, blocks[i].id), bs2)
  /\ UNCHANGED <<loadLog, searchIndex, results, calc, pc, host, url, view, cities, dataset, currentTZ, urlPending>>

\* Assignment of a candidate's date followed by saveBlocks and renderBlocks.
setBlockDate(i, d) ==
  LET bs == [blocks EXCEPT ![i].date = d]
  IN /\ blocks' = bs
     /\ store' = [store EXCEPT !.blocks = saveBlocks(bs)]
     /\ dom' = renderBlocks(cities, bs, view)
     /\ timers' = setIntervalNow(timers, renderBlocks(cities, bs, view))
     /\ objects' = assignDate(objects, i)

\* The change handler of candidate i's date field.
DateInput ==
  /\ Ready /\ Step("dateChange")
  /\ \E i \in 1..Len(dom) : \E d \in DateInputs : setBlockDate(i, d)
  /\ UNCHANGED <<loadLog, searchIndex, results, calc, pc, host, url, view, cities, dataset, currentTZ, urlPending>>

\* The previous-day and next-day buttons of candidate i.
changeBlockDay ==
  /\ Ready /\ Step("changeBlockDay")
  /\ \E i \in 1..Len(dom) : \E deltaDays \in {-1, 1} :
       LET d == changeBlockDayResult(blocks[i].date, deltaDays, cities)
       IN d \in DayLo..DayHi /\ setBlockDate(i, d)
  /\ UNCHANGED <<loadLog, searchIndex, results, calc, pc, host, url, view, cities, dataset, currentTZ, urlPending>>

\* A weekday button of candidate i's week strip.
jumpToWeekday ==
  /\ Ready /\ Step("jumpToWeekday")
  /\ \E i \in 1..Len(dom) : \E weekday \in 0..6 :
       LET delta == weekday - weekdayOf(blocks[i].date)
           d == changeBlockDayResult(blocks[i].date, delta, cities)
       IN d \in DayLo..DayHi /\ setBlockDate(i, d)
  /\ UNCHANGED <<loadLog, searchIndex, results, calc, pc, host, url, view, cities, dataset, currentTZ, urlPending>>

\* Variant of SetGranularity: the candidates are not rendered again.
SetGranularity_NoRender ==
  /\ Ready /\ Step("granularity")
  /\ \E g \in Granularities :
       /\ view' = g
       /\ store' = [store EXCEPT !.view = saveView(g)]
  /\ UNCHANGED <<objects, timers, loadLog, searchIndex, results, calc, pc, host, url, cities, blocks, dataset, currentTZ, dom, urlPending>>

\* A granularity button: assign, saveView, render.
SetGranularity ==
  /\ Ready /\ Step("granularity")
  /\ \E g \in Granularities :
       /\ view' = g
       /\ store' = [store EXCEPT !.view = saveView(g)]
       /\ dom' = renderBlocks(cities, blocks, g)
       /\ timers' = setIntervalNow(timers, renderBlocks(cities, blocks, g))
  /\ UNCHANGED <<objects, loadLog, searchIndex, results, calc, pc, host, url, cities, blocks, dataset, currentTZ, urlPending>>

\* window resize: renderBlocks.
Resize ==
  /\ Ready /\ Step("resize")
  /\ dom' = renderBlocks(cities, blocks, view)
  /\ timers' = setIntervalNow(timers, renderBlocks(cities, blocks, view))
  /\ UNCHANGED <<objects, loadLog, searchIndex, results, calc, pc, host, url, store, view, cities, blocks, dataset, currentTZ, urlPending>>

\* ------------------------------------------------------------ drag selection
\* pointerdown on candidate i's overlay; the handles are reachable only while
\* the selection rectangle is displayed.
PointerDown(i, target, x) ==
  /\ Ready /\ Step("pointerdown")
  /\ i \in 1..Len(dom)
  /\ target \in {"start", "end"} => blocks[i].selection.has
  /\ LET slot == posToSlot(x, dom[i].gran)
         sel0 == blocks[i].selection
         sel1 == pointerDownSel(sel0, target, slot)
         anchor == pointerDownAnchor(sel0, target, slot, dom[i].dragAnchorStart)
         sel2 == onPointerMoveSel(sel1, target, slot)
     IN /\ blocks' = IF target = "range"
                      THEN [blocks EXCEPT ![i].selection = sel2]
                      ELSE mutateSelection(blocks, objects, i, sel2)
        /\ objects' = IF target = "range" THEN assignSelection(objects, i) ELSE objects
        /\ dom' = [dom EXCEPT ![i].dragging = target, ![i].dragAnchorStart = anchor]
  /\ UNCHANGED <<timers, loadLog, searchIndex, results, calc, pc, host, url, store, view, cities, dataset, currentTZ, urlPending>>

\* pointermove on candidate i's overlay.
PointerMove(i, x) ==
  /\ Ready /\ Step("pointermove")
  /\ i \in 1..Len(dom)
  /\ IF dom[i].dragging = "idle"
     THEN UNCHANGED <<blocks, objects>>
     ELSE LET sel == onPointerMoveSel(blocks[i].selection, dom[i].dragging,
                                      posToSlot(x, dom[i].gran))
          IN IF blocks[i].selection.has
             THEN /\ blocks' = mutateSelection(blocks, objects, i, sel)
                  /\ UNCHANGED objects
             ELSE /\ blocks' = [blocks EXCEPT ![i].selection = sel]
                  /\ objects' = assignSelection(objects, i)
  /\ UNCHANGED <<timers, loadLog, searchIndex, results, calc, pc, host, url, store, view, cities, dataset, currentTZ, dom, urlPending>>

\* Variant of PointerUp: the drag ends without saveBlocks.
PointerUp_NoSave(i) ==
  /\ Ready /\ Step("pointerup")
  /\ i \in 1..Len(dom)
  /\ dom' = [dom EXCEPT ![i].dragging = "idle"]
  /\ UNCHANGED <<objects, timers, loadLog, searchIndex, results, calc, pc, host, url, store, view, cities, blocks, dataset, currentTZ, urlPending>>

\* pointerup or pointercancel on candidate i's overlay.
PointerUp(i) ==
  /\ Ready /\ Step("pointerup")
  /\ i \in 1..Len(dom)
  /\ dom' = [dom EXCEPT ![i].dragging = "idle"]
  /\ store' = [store EXCEPT !.blocks = saveBlocks(blocks)]
  /\ UNCHANGED <<objects, timers, loadLog, searchIndex, results, calc, pc, host, url, view, cities, blocks, dataset, currentTZ, urlPending>>

PointerDownAny == \E i \in 1..Len(dom) : \E target \in {"range", "start", "end"} :
                    \E x \in PointerXs : PointerDown(i, target, x)
PointerMoveAny == \E i \in 1..Len(dom) : \E x \in PointerXs : PointerMove(i, x)
PointerUpAny == \E i \in 1..Len(dom) : PointerUp(i)

\* ----------------------------------------------------------- specification
Next ==
  \/ StartInit
  \/ FinishInit
  \/ ApplyUrlParamsTimer
  \/ AddCityFromSearch
  \/ AddCurrentLocation
  \/ RemoveCity
  \/ DropCityAny
  \/ addBlock
  \/ deleteBlock
  \/ DateInput
  \/ changeBlockDay
  \/ jumpToWeekday
  \/ SetGranularity
  \/ Resize
  \/ PointerDownAny
  \/ PointerMoveAny
  \/ PointerUpAny

Spec == Init /\ [][Next]_vars

\* Startup alone: init and the applyUrlParams timer.
NextLoad ==
  \/ StartInit
  \/ FinishInit
  \/ ApplyUrlParamsTimer

SpecLoad == InitLoad /\ [][NextLoad]_vars

\* Startup and the city search: every host, no stored records.
InitSearch ==
  /\ Constructed
  /\ calc = NoCalc
  /\ host \in Hosts
  /\ url \in {NoUrl, RangeUrl}
  /\ store = FreshStore

NextSearch ==
  \/ StartInit
  \/ FinishInit
  \/ ApplyUrlParamsTimer
  \/ Search
  \/ AddCityFromResults
  \/ AddCurrentLocation
  \/ RemoveCity

SpecSearch == InitSearch /\ [][NextSearch]_vars

\* ------------------------------------------------------------ row rendering
\* Variant of makeWrappedRect: the second piece keeps the whole width.
makeWrappedRect_SecondFull(leftMin, widthMin) ==
  LET l == IF leftMin < 0 THEN leftMin % DAY_MIN ELSE leftMin
  IN IF l + widthMin <= DAY_MIN THEN <<<<l, widthMin>>>>
     ELSE <<<<l, DAY_MIN - l>>, <<0, widthMin>>>>

\* makeWrappedRect: `while (l < 0) l += DAY_MIN` brings a negative left into
\* [0, 1440) and leaves any other left as it is.
makeWrappedRect(leftMin, widthMin) ==
  LET l == IF leftMin < 0 THEN leftMin % DAY_MIN ELSE leftMin
      first == DAY_MIN - l
  IN IF l + widthMin <= DAY_MIN THEN <<<<l, widthMin>>>>
     ELSE <<<<l, first>>, <<0, widthMin - first>>>>

\* Variant of comfortWeight: hour 21 counts as shoulder.
comfortWeight_LateShoulder(hour) ==
  IF hour >= 9 /\ hour < 18 THEN 3
  ELSE IF (hour >= 7 /\ hour < 9) \/ (hour >= 18 /\ hour <= 21) THEN 2
  ELSE IF hour = 6 \/ (hour >= 21 /\ hour < 23) THEN 1
  ELSE 0

comfortWeight(hour) ==
  IF hour >= 9 /\ hour < 18 THEN 3
  ELSE IF (hour >= 7 /\ hour < 9) \/ (hour >= 18 /\ hour < 21) THEN 2
  ELSE IF hour = 6 \/ (hour >= 21 /\ hour < 23) THEN 1
  ELSE 0

RECURSIVE slotScore(_, _)
\* The inner loop of renderConsensus: the comfort of instant ts summed over
\* the tracked cities.
slotScore(ts, cs) ==
  IF cs = <<>> THEN 0
  ELSE comfortWeight(partsFromTs(ts, Head(cs).tzId).hour) + slotScore(ts, Tail(cs))

\* q of slot s in tenths: Math.round(alpha * 10), with
\* alpha * 10 = min(2.5, 0.5 + 2 * score / maxPerSlot) as a fraction over
\* 2 * maxPerSlot.
slotQ(anchorUtc, gran, cs, s) ==
  LET maxPerSlot == 3 * Max(1, Len(cs))
      score == slotScore(anchorUtc + (2 * s + 1) * gran * (MS_PER_MIN \div 2), cs)
  IN IF score <= 0 THEN 0
     ELSE MathRound(Min(5 * maxPerSlot, maxPerSlot + 4 * score), 2 * maxPerSlot)

\* The slot loop of renderConsensus: a new run {q, start, end} starts at slot
\* 0 and at every slot whose q differs from the previous slot's, and a run
\* ends where the next one starts.
consensusSegments(anchorUtc, gran, cs) ==
  LET n == totalSlots(gran)
      q == [s \in 0..(n - 1) |-> slotQ(anchorUtc, gran, cs, s)]
      starts == {s \in 0..(n - 1) : s = 0 \/ q[s] # q[s - 1]}
      startOf(i) == CHOOSE s \in starts : Cardinality({t \in starts : t < s}) = i - 1
      endOf(s) == IF \E t \in starts : t > s
                  THEN CHOOSE t \in starts : t > s /\ \A u \in starts : u > s => t <= u
                  ELSE n
  IN [i \in 1..Cardinality(starts) |->
        [q |-> q[startOf(i)], start |-> startOf(i), end |-> endOf(startOf(i))]]

RECURSIVE visibleSegments(_)
\* The rendering loop: a segment is drawn unless q <= 0 or its width is
\* below two slot widths.
visibleSegments(segs) ==
  IF segs = <<>> THEN <<>>
  ELSE IF Head(segs).q <= 0 \/ Head(segs).end - Head(segs).start < 2
       THEN visibleSegments(Tail(segs))
       ELSE <<Head(segs)>> \o visibleSegments(Tail(segs))

RECURSIVE positiveSegments(_)
\* Variant of the rendering loop: narrow segments are drawn too.
positiveSegments(segs) ==
  IF segs = <<>> THEN <<>>
  ELSE IF Head(segs).q <= 0 THEN positiveSegments(Tail(segs))
       ELSE <<Head(segs)>> \o positiveSegments(Tail(segs))

\* Variant of renderConsensus: no width filter.
renderConsensus_KeepNarrow(anchorUtc, gran, cs) ==
  positiveSegments(consensusSegments(anchorUtc, gran, cs))

\* renderConsensus: the .cs-slot elements it appends, in order.
renderConsensus(anchorUtc, gran, cs) ==
  visibleSegments(consensusSegments(anchorUtc, gran, cs))

\* ------------------------------------------------------------ output text
\* formatJP prints month, day, weekday, hour and minute of an instant in a
\* zone (month and day are the civil day here); formatTimeHHmm prints hour
\* and minute only.  Neither prints the year or the seconds.
formatJP(ts, tz) ==
  LET p == partsFromTs(ts, tz)
  IN [day |-> p.day, weekday |-> p.weekday, hour |-> p.hour, minute |-> p.minute]

formatTimeHHmm(parts) == [hour |-> parts.hour, minute |-> parts.minute]

sameLocalDay(tsA, tsB, tz) == partsFromTs(tsA, tz).day = partsFromTs(tsB, tz).day

\* Variant of blockOutputsText: the end is always printed as HH:mm.
blockOutputsText_ShortEnd(block, anchorUtc, g, cs) ==
  IF ~block.selection.has THEN [unset |-> TRUE, name |-> block.name, lines |-> <<>>]
  ELSE LET startTs == anchorUtc + block.selection.start * g * MS_PER_MIN
           endTs == anchorUtc + block.selection.end * g * MS_PER_MIN
       IN [unset |-> FALSE, name |-> block.name,
           lines |-> [k \in 1..Len(cs) |->
                        [city |-> cs[k].id,
                         start |-> formatJP(startTs, cs[k].tzId),
                         end |-> formatTimeHHmm(partsFromTs(endTs, cs[k].tzId))]]]

\* blockOutputsText: the fixed notice while nothing is selected, else the
\* candidate's name and one line per tracked city.  A line is kept as the
\* city its label names, the printed start and the printed end.
blockOutputsText(block, anchorUtc, g, cs) ==
  IF ~block.selection.has THEN [unset |-> TRUE, name |-> block.name, lines |-> <<>>]
  ELSE LET startTs == anchorUtc + block.selection.start * g * MS_PER_MIN
           endTs == anchorUtc + block.selection.end * g * MS_PER_MIN
       IN [unset |-> FALSE, name |-> block.name,
           lines |-> [k \in 1..Len(cs) |->
                        [city |-> cs[k].id,
                         start |-> formatJP(startTs, cs[k].tzId),
                         end |-> IF sameLocalDay(startTs, endTs, cs[k].tzId)
                                 THEN formatTimeHHmm(partsFromTs(endTs, cs[k].tzId))
                                 ELSE formatJP(endTs, cs[k].tzId)]]]

\* ------------------------------------------------------------ timer ticks
\* A tick of the interval bindEvents registered: updateClocks rewrites the
\* text of the .clock nodes and touches nothing else.
ClockTick ==
  /\ pc = "ready" /\ timers.clock > 0
  /\ lastOp' = "clockTick"
  /\ UNCHANGED <<objects, pc, host, url, store, view, cities, blocks, dataset, currentTZ, dom,
                 urlPending, steps, loadLog, searchIndex, results, calc, timers>>

\* A tick of one renderBlock closure's nowTimer: updateClocks, updateSelPos
\* and renderConsensus rewrite nodes of the page (or detached ones).
NowTimerTick ==
  /\ pc = "ready" /\ timers.now > 0
  /\ lastOp' = "nowTimerTick"
  /\ UNCHANGED <<objects, pc, host, url, store, view, cities, blocks, dataset, currentTZ, dom,
                 urlPending, steps, loadLog, searchIndex, results, calc, timers>>

\* Startup, the operations that render again, and the ticks.
InitTimers ==
  /\ Constructed
  /\ calc = NoCalc
  /\ host = DefaultHost
  /\ url \in {NoUrl, RangeUrl}
  /\ store \in {FreshStore, ReturningStore}

NextTimers ==
  \/ StartInit
  \/ FinishInit
  \/ ApplyUrlParamsTimer
  \/ AddCurrentLocation
  \/ RemoveCity
  \/ addBlock
  \/ deleteBlock
  \/ SetGranularity
  \/ Resize
  \/ ClockTick
  \/ NowTimerTick

SpecTimers == InitTimers /\ [][NextTimers]_vars

\* ------------------------------------------------- calls of pure functions
\* Zones the host formats, instants and dates the functions are called with.
TimeZones ==
  Zones \cup {"Asia/Kolkata", "Asia/Kathmandu", "Australia/Sydney", "Europe/London",
              "America/Havana", "America/Sao_Paulo", "Africa/Monrovia"}

Instants ==
  NowSet \cup {d * DAY_MS + h * HOUR_MS + ms :
                 d \in DayLo..DayHi, h \in {0, 6}, ms \in {0, 1}}

CivilDates == (DayLo - 1)..(DayHi + 1)

LeftOffsets == {180 * k - 30 * (k % 2) : k \in -9..9} \cup {-DAY_MIN, DAY_MIN}
Widths == {0, 60, 120, 180, 240, 360, 540, DAY_MIN, DAY_MIN + 60}

CityLists ==
  {<<TokyoCity>>, <<NewYorkCity>>, <<TokyoCity, NewYorkCity>>, ThreeCities,
   <<City("tz-asia-kathmandu", "Asia/Kathmandu", FALSE), TokyoCity>>,
   <<City("current", "Australia/Sydney", TRUE), NewYorkCity>>}

CalcInputs ==
  {[fn |-> "tzOffsetLabel", ts |-> ts, tz |-> tz, done |-> FALSE] :
     ts \in Instants, tz \in TimeZones}
  \cup {[fn |-> "zonedMidnightUtcMs", date |-> d, tz |-> tz, done |-> FALSE] :
          d \in CivilDates, tz \in TimeZones}
  \cup {[fn |-> "makeWrappedRect", leftMin |-> l, widthMin |-> w, done |-> FALSE] :
          l \in LeftOffsets, w \in Widths}
  \cup {[fn |-> "renderConsensus", date |-> d, gran |-> g, cities |-> cs, done |-> FALSE] :
          d \in DayLo..DayHi, g \in Granularities, cs \in CityLists}
  \cup {[fn |-> "consensusSegments", date |-> d, gran |-> g, cities |-> cs, done |-> FALSE] :
          d \in DayLo..DayHi, g \in Granularities, cs \in CityLists}

\* Candidates whose text is printed: selections in slots of granularity g
\* (none, the first slot, office hours, the evening up to the end of the
\* day, the whole day), under the tracked-city lists above, the empty list
\* and a list led by a zone with a sub-minute offset.
Selections(g) ==
  {NoSel, Sel(0, 1), Sel(9 * (60 \div g), 17 * (60 \div g)),
   Sel(20 * (60 \div g), totalSlots(g)), Sel(0, totalSlots(g))}

OutputCityLists ==
  CityLists \cup {<<>>, <<City("tz-africa-monrovia", "Africa/Monrovia", FALSE), TokyoCity>>,
                  <<City("tz-america-sao-paulo", "America/Sao_Paulo", FALSE), TokyoCity>>}

OutputInputs ==
  {[fn |-> "blockOutputsText", block |-> Block(1, 1, d, sel), gran |-> g, cities |-> cs,
    done |-> FALSE] :
     d \in DayLo..DayHi, g \in Granularities, cs \in OutputCityLists, sel \in UNION {Selections(gg) : gg \in Granularities}}

\* Hosts whose catalog is searched.
SearchHosts == Hosts \cup {GmtHost}

SearchInputs ==
  {[fn |-> "doSearch", host |-> h, q |-> q, done |-> FALSE] : h \in SearchHosts, q \in Queries}

InitPure ==
  /\ Constructed
  /\ host = DefaultHost /\ url = NoUrl /\ store = FreshStore
  /\ calc \in CalcInputs \cup SearchInputs \cup OutputInputs

Returns(fn, out) ==
  /\ calc.fn = fn /\ ~calc.done
  /\ calc' = [fn |-> fn, in |-> calc, done |-> TRUE, out |-> out]
  /\ UNCHANGED <<objects, timers, pc, host, url, store, view, cities, blocks, dataset, currentTZ, dom,
                 urlPending, steps, lastOp, loadLog, searchIndex, results>>

\* tzOffsetMinutes and tzOffsetLabel of an instant (renderCityList calls them
\* with Date.now()).
CallTzOffsetLabel ==
  calc.fn = "tzOffsetLabel" /\
  Returns("tzOffsetLabel", [offMs |-> tzOffsetMs(calc.ts, calc.tz),
                            label |-> tzOffsetLabel(calc.ts, calc.tz)])

CallZonedMidnightUtcMs ==
  calc.fn = "zonedMidnightUtcMs" /\
  Returns("zonedMidnightUtcMs", zonedMidnightUtcMs(calc.date, calc.tz))

CallMakeWrappedRect ==
  calc.fn = "makeWrappedRect" /\
  Returns("makeWrappedRect", makeWrappedRect(calc.leftMin, calc.widthMin))

\* renderConsensus as renderBlock calls it: the anchor is the top city's
\* midnight of the candidate's date.
CallRenderConsensus ==
  calc.fn = "renderConsensus" /\
  Returns("renderConsensus",
          renderConsensus(zonedMidnightUtcMs(calc.date, topTz(calc.cities)),
                          calc.gran, calc.cities))

\* doSearch on the catalog the host's page load leaves in state.dataset.
CallDoSearch ==
  calc.fn = "doSearch" /\
  Returns("doSearch",
          doSearch(loadDataset(calc.host), buildSearchIndex(loadDataset(calc.host)), calc.q))

\* blockOutputsText as renderBlock and copyAll call it: the anchor is the top
\* city's midnight of the candidate's date.
CallBlockOutputsText ==
  calc.fn = "blockOutputsText" /\
  Returns("blockOutputsText",
          blockOutputsText(calc.block, zonedMidnightUtcMs(calc.block.date, topTz(calc.cities)),
                           calc.gran, calc.cities))

\* The segments array renderConsensus has built when its slot loop ends.
CallConsensusSegments ==
  calc.fn = "consensusSegments" /\
  Returns("consensusSegments",
          consensusSegments(zonedMidnightUtcMs(calc.date, topTz(calc.cities)),
                            calc.gran, calc.cities))

NextPure ==
  \/ CallConsensusSegments
  \/ CallBlockOutputsText
  \/ CallDoSearch
  \/ CallTzOffsetLabel
  \/ CallZonedMidnightUtcMs
  \/ CallMakeWrappedRect
  \/ CallRenderConsensus

SpecPure == InitPure /\ [][NextPure]_vars

TypeOK ==
  /\ pc \in {"boot", "loading", "ready"}
  /\ view \in Granularities
  /\ Len(dom) \in {0, Len(blocks)}


\* =================================================================== claims
NoDrag == \A i \in 1..Len(dom) : dom[i].dragging = "idle"

\* The sequence s without its element at position k.
RemoveAt(s, k) == [i \in 1..(Len(s) - 1) |-> IF i < k THEN s[i] ELSE s[i + 1]]

\* C1: in every reachable state every candidate's non-null selection
\* satisfies 0 <= start < end <= totalSlots, totalSlots = 1440 / granularity.
C1_SelectionWithinGrid ==
  \A i \in 1..Len(blocks) :
    blocks[i].selection.has =>
      /\ 0 <= blocks[i].selection.start
      /\ blocks[i].selection.start < blocks[i].selection.end
      /\ blocks[i].selection.end <= DAY_MIN \div view

\* C2: after every pointer-move handled during a drag (new-range,
\* adjust-start or adjust-end) the dragged candidate's selection has
\* start <= end.
C2_MoveKeepsOrder ==
  [][lastOp' = "pointermove" =>
     \A i \in 1..Len(dom) : \A x \in PointerXs :
       (PointerMove(i, x) /\ dom[i].dragging # "idle") =>
         /\ blocks'[i].selection.has
         /\ blocks'[i].selection.start <= blocks'[i].selection.end]_vars

\* A new-range drag was moved to the left of its initial slot.
C2_Witness ==
  /\ lastOp = "pointermove"
  /\ \E i \in 1..Len(dom) :
       /\ dom[i].dragging = "range"
       /\ blocks[i].selection.end = dom[i].dragAnchorStart
       /\ blocks[i].selection.start < blocks[i].selection.end

\* C3: the number of candidates never exceeds MAX_BLOCKS, startup included.
C3_AtMostMaxBlocks == Len(blocks) <= MAX_BLOCKS

\* C4: after initialization the candidate list is never empty.
C4_NeverEmpty == pc = "ready" => Len(blocks) >= 1

\* The first operation after startup deleted the only candidate, and one
\* candidate exists again.
C4_Witness ==
  /\ lastOp = "deleteBlock"
  /\ steps = 1
  /\ Len(blocks) = 1
  /\ ~blocks[1].selection.has

\* C5: with fewer than MAX_BLOCKS candidates, add-candidate appends exactly
\* one candidate whose date and selection equal those of the candidate that
\* was last, and leaves the earlier candidates unchanged and in order.
C5_AddClonesLast ==
  [][(addBlock /\ Len(blocks) < MAX_BLOCKS) =>
       /\ Len(blocks') = Len(blocks) + 1
       /\ SubSeq(blocks', 1, Len(blocks)) = blocks
       /\ blocks'[Len(blocks')].date = blocks[Len(blocks)].date
       /\ blocks'[Len(blocks')].selection = blocks[Len(blocks)].selection]_vars

\* A candidate with a selection was cloned.
C5_Witness ==
  /\ lastOp = "addBlock"
  /\ Len(blocks) >= 2
  /\ blocks[Len(blocks)].selection.has
  /\ blocks[Len(blocks)].selection = blocks[Len(blocks) - 1].selection
  /\ blocks[Len(blocks)].id # blocks[Len(blocks) - 1].id

\* C6: adding, removing or reordering tracked cities (a change of the first
\* city included) leaves every candidate's date and selection unchanged; so
\* does the cities parameter of the URL when from/to are not applied.
CityOps == {"addCity", "addCurrent", "removeCity", "drop"}

C6_CityOpsKeepCandidates ==
  [][(\/ lastOp' \in CityOps
      \/ (lastOp' = "applyUrlParams" /\ ~(url.hasKeys /\ urlRangeApplies(url, blocks)))) =>
       /\ Len(blocks') = Len(blocks)
       /\ \A i \in 1..Len(blocks) :
            /\ blocks'[i].date = blocks[i].date
            /\ blocks'[i].selection = blocks[i].selection]_vars

\* A reorder just replaced the first (anchor) city while a candidate has a
\* selection.
C6_Witness ==
  /\ lastOp = "drop"
  /\ steps = 1
  /\ Len(cities) = 3
  /\ cities[1].id # "tokyo"
  /\ store.cities.arr = cities
  /\ blocks[1].selection = Sel(36, 68)

\* C7: a drop of the city at index src onto the row at index dst, src # dst,
\* yields a permutation with the moved city at index dst and the others in
\* their previous relative order; a drop with src = dst or an unknown source
\* id changes nothing.
C7_DropMovesOne ==
  [][lastOp' = "drop" =>
     \A dstIdx \in 1..Len(cities) : \A srcId \in DropTexts :
       DropCity(dstIdx, srcId) =>
         LET srcIdx == findIndexById(cities, srcId)
         IN IF srcIdx >= 1 /\ srcIdx # dstIdx
            THEN /\ Len(cities') = Len(cities)
                 /\ cities'[dstIdx] = cities[srcIdx]
                 /\ RemoveAt(cities', dstIdx) = RemoveAt(cities, srcIdx)
            ELSE cities' = cities]_vars

\* The first of three cities was dropped onto the third row.
C7_Witness ==
  /\ lastOp = "drop"
  /\ steps = 1
  /\ cities = <<ThreeCities[2], ThreeCities[3], ThreeCities[1]>>

\* C8: after every completed mutation the persisted record of the mutated
\* part equals its in-memory value (for the candidates: whenever no drag is
\* in progress).
C8_MutationsPersisted ==
  [][/\ view' # view => store'.view = ViewJson(view')
     /\ cities' # cities => store'.cities = ArrayJson(cities')
     /\ (blocks' # blocks /\ NoDrag') => store'.blocks = ArrayJson(blocks')]_vars

\* The next-day button moved a candidate to day 3 and the record follows.
C8_Witness ==
  /\ lastOp = "changeBlockDay"
  /\ NoDrag
  /\ \E i \in 1..Len(blocks) : blocks[i].date = 3
  /\ store.blocks = ArrayJson(blocks)

\* C9: pointer-down and pointer-move change only the in-memory selection of
\* the one candidate and leave the persisted candidates unchanged; pointer-up
\* or pointer-cancel returns the drag mode to idle and makes the persisted
\* candidates equal the in-memory ones; pointer-move while idle changes
\* nothing.
OnlySelectionOf(i) ==
  /\ Len(blocks') = Len(blocks)
  /\ \A j \in 1..Len(blocks) :
       IF j = i THEN blocks'[j] = [blocks[j] EXCEPT !.selection = blocks'[j].selection]
       ELSE blocks'[j] = blocks[j]
  /\ UNCHANGED <<store, view, cities>>

C9_DragLifecycle ==
  [][lastOp' \in {"pointerdown", "pointermove", "pointerup"} =>
     \A i \in 1..Len(dom) : \A x \in PointerXs :
       /\ (\E target \in {"range", "start", "end"} : PointerDown(i, target, x)) =>
            OnlySelectionOf(i)
       /\ (PointerMove(i, x) /\ dom[i].dragging # "idle") => OnlySelectionOf(i)
       /\ (PointerMove(i, x) /\ dom[i].dragging = "idle") =>
            UNCHANGED <<blocks, store, view, cities, dom>>
       /\ PointerUp(i) =>
            /\ dom'[i].dragging = "idle"
            /\ store'.blocks = ArrayJson(blocks')
            /\ blocks' = blocks]_vars

\* A drag of three events ended and its result is in the persisted record.
C9_Witness ==
  /\ lastOp = "pointerup"
  /\ steps = 3
  /\ \E i \in 1..Len(dom) :
       /\ dom[i].dragging = "idle"
       /\ blocks[i].selection.has
       /\ blocks[i].selection.start < blocks[i].selection.end
       /\ blocks[i].selection # Sel(36, 68)
       /\ store.blocks.arr[i].selection = blocks[i].selection

\* C10: at startup each record is handled on its own: an absent, unparseable
\* or invalid record leaves its part at the default (granularity 60, no
\* cities, no candidates) while the other parts load from their records.
C10_RecordsIndependent ==
  lastOp = "loadPersisted" =>
    /\ view = IF store.view.kind = "obj" /\ store.view.gran \in {15, 30, 60}
              THEN store.view.gran ELSE 60
    /\ cities = IF store.cities.kind = "array" THEN store.cities.arr ELSE <<>>
    /\ blocks = IF store.blocks.kind = "array" THEN store.blocks.arr ELSE <<>>

\* An unparseable view record next to loaded cities and candidates.
C10_Witness ==
  /\ lastOp = "loadPersisted"
  /\ store.view.kind = "corrupt"
  /\ view = 60
  /\ Len(cities) = 3
  /\ Len(blocks) = 1

\* C11: state.view.granularity is always 15, 30 or 60, after loadPersisted
\* and after every granularity button, and every rendered candidate computes
\* its totalSlots from that one value.
C11_GranularityValid ==
  /\ view \in Granularities
  /\ \A i \in 1..Len(dom) :
       /\ dom[i].gran = view
       /\ totalSlots(dom[i].gran) = DAY_MIN \div view

\* A granularity button was clicked while several candidates were rendered,
\* and the page had started from a stored granularity it does not offer.
C11_Witness ==
  /\ lastOp = "granularity"
  /\ view = 15
  /\ Len(dom) >= 2
  /\ url = NoUrl /\ host = BareHost

IsCuratedItem(it) == it.isCurated

LoadStageOrders ==
  {<<>>, <<"fetch">>, <<"fetch", "augment", "index">>,
   <<"fetch", "embedded", "augment", "index">>}

\* C12: doSearch, the add-current-location handler and applyUrlParams run
\* only after loadDataset has finished; loadDataset goes through fetch,
\* embedded fallback (exactly when the fetch gave no entries), augmentation
\* and buildSearchIndex in this order; and from then on searchIndex has an
\* entry for the id of every catalog record.
C12_LoadBeforeUse ==
  /\ loadLog \in LoadStageOrders
  /\ Len(loadLog) > 1 =>
       ((\E k \in 1..Len(loadLog) : loadLog[k] = "embedded") <=> ~host.fetchOk)
  /\ lastOp \in {"search", "addCity", "addCurrent", "applyUrlParams"} =>
       /\ Len(loadLog) > 1
       /\ loadLog[Len(loadLog)] = "index"
  /\ pc = "ready" =>
       /\ searchIndex.built
       /\ \A k \in 1..Len(dataset) : dataset[k].id \in searchIndex.ids

\* After a load whose fetch delivered the catalog, a search listed a record
\* that augmentation had added.
C12_Witness ==
  /\ lastOp = "search"
  /\ host.fetchOk
  /\ \E k \in 1..Len(results) : ~results[k].isCurated

\* C13: when the fetch fails the catalog comes from the embedded payload, and
\* when the embedded payload fails too the catalog is empty after the load
\* and every search lists nothing.
C13_FallbackThenEmpty ==
  pc = "ready" =>
    /\ (~host.fetchOk /\ host.embeddedOk) => SelectSeq(dataset, IsCuratedItem) = Catalog
    /\ (~host.fetchOk /\ ~host.embeddedOk) => (dataset = <<>> /\ results = <<>>)

\* C13 as amended: when both the fetch and the embedded payload fail, the
\* catalog holds no curated record: it holds only the records augmentation
\* derives from the host's zone list, searches list only such records, and
\* the catalog and every search result are empty when the host has no list.
C13_FallbackThenNoCurated ==
  pc = "ready" =>
    /\ (~host.fetchOk /\ host.embeddedOk) => SelectSeq(dataset, IsCuratedItem) = Catalog
    /\ (~host.fetchOk /\ ~host.embeddedOk) =>
         /\ \A k \in 1..Len(dataset) :
              /\ ~dataset[k].isCurated
              /\ host.supported
              /\ \E j \in 1..Len(host.timeZones) : host.timeZones[j] = dataset[k].tzId
         /\ \A k \in 1..Len(results) : ~results[k].isCurated
         /\ (~host.supported \/ host.timeZones = <<>>) => (dataset = <<>> /\ results = <<>>)

\* After both sources failed, a search listed a record that augmentation
\* had added.
C13_Witness ==
  /\ lastOp = "search"
  /\ ~host.fetchOk /\ ~host.embeddedOk
  /\ results # <<>>

\* C14: after the load all catalog records have pairwise distinct ids, the
\* augmented ones carrying 'tz-' and the slug of their zone identifier.
C14_CatalogIdsDistinct ==
  pc = "ready" =>
    /\ \A i, j \in 1..Len(dataset) : i # j => dataset[i].id # dataset[j].id
    /\ \A k \in 1..Len(dataset) :
         ~dataset[k].isCurated => dataset[k].id = TzSlugId(dataset[k].tzId)

\* A finished call of the pure function fn.
Returned(fn) == calc.fn = fn /\ calc.done

Abs(n) == IF n >= 0 THEN n ELSE -n

\* C15: for every instant, whole second or not, and every zone, the offset
\* tzOffsetMinutes returns is a whole number of minutes equal to the zone's
\* wall-clock-minus-UTC offset at that instant, and tzOffsetLabel prints the
\* sign ('+' from 0 up) and the zero-padded hours and minutes of that offset.
C15_OffsetExact ==
  Returned("tzOffsetLabel") =>
    LET offSec == HostOffsetSec(calc.in.ts, calc.in.tz)
    IN /\ calc.out.offMs % MS_PER_MIN = 0
       /\ calc.out.offMs = offSec * 1000
       /\ calc.out.label = [sign |-> IF offSec >= 0 THEN "+" ELSE "-",
                            hh |-> Abs(offSec) \div 3600,
                            mm |-> (Abs(offSec) % 3600) \div 60]

\* C16: for every civil date and every zone, zonedMidnightUtcMs returns an
\* instant whose civil fields in the zone are that date at 00:00:00.
C16_MidnightFields ==
  Returned("zonedMidnightUtcMs") =>
    LET p == partsFromTs(calc.out, calc.in.tz)
    IN p.day = calc.in.date /\ p.hour = 0 /\ p.minute = 0 /\ p.second = 0

\* The left offset brought into [0, 1440) by the positive remainder.
NormalizedLeft(leftMin) == leftMin % DAY_MIN

\* C17: for every left offset and every width from 0 to 1440, each piece
\* (l, w) of makeWrappedRect has 0 <= l < 1440, w >= 0 and l + w <= 1440.
C17_PiecesWithinDay ==
  (Returned("makeWrappedRect") /\ calc.in.widthMin <= DAY_MIN) =>
    \A k \in 1..Len(calc.out) :
      /\ 0 <= calc.out[k][1] /\ calc.out[k][1] < DAY_MIN
      /\ calc.out[k][2] >= 0
      /\ calc.out[k][1] + calc.out[k][2] <= DAY_MIN

\* C18: for every left offset and every width >= 0 the widths of the pieces
\* of makeWrappedRect add up to the width.
C18_WidthsSum ==
  Returned("makeWrappedRect") =>
    (IF Len(calc.out) = 1 THEN calc.out[1][2]
     ELSE calc.out[1][2] + calc.out[2][2]) = calc.in.widthMin

\* A width above one day was split in two pieces.
C18_Witness ==
  /\ Returned("makeWrappedRect")
  /\ calc.in.widthMin > DAY_MIN
  /\ calc.in.leftMin > 0
  /\ Len(calc.out) = 2

\* C19: for a width up to 1440, makeWrappedRect returns the one piece
\* (l, width) when l + width <= 1440, l being the normalized left, and the
\* two pieces (l, 1440 - l), (0, width - (1440 - l)) otherwise; two pieces of
\* a width below 1440 are disjoint, not adjacent, and add up to the width.
C19_OneOrTwoPieces ==
  (Returned("makeWrappedRect") /\ calc.in.widthMin <= DAY_MIN) =>
    LET l == NormalizedLeft(calc.in.leftMin)
        w == calc.in.widthMin
    IN /\ IF l + w <= DAY_MIN
          THEN calc.out = <<<<l, w>>>>
          ELSE calc.out = <<<<l, DAY_MIN - l>>, <<0, w - (DAY_MIN - l)>>>>
       /\ (Len(calc.out) = 2 /\ w < DAY_MIN) =>
            /\ calc.out[2][1] + calc.out[2][2] < calc.out[1][1]
            /\ calc.out[1][2] + calc.out[2][2] = w

\* C20: the consensus segments renderConsensus draws are sorted by start
\* slot, do not overlap, lie within [0, totalSlots], have a positive
\* intensity and span at least two slots.
C20_ConsensusSegments ==
  Returned("renderConsensus") =>
    /\ \A k \in 1..Len(calc.out) :
         /\ 0 <= calc.out[k].start
         /\ calc.out[k].end <= totalSlots(calc.in.gran)
         /\ calc.out[k].q > 0
         /\ calc.out[k].end - calc.out[k].start >= 2
    /\ \A k \in 1..(Len(calc.out) - 1) :
         /\ calc.out[k].start < calc.out[k + 1].start
         /\ calc.out[k].end <= calc.out[k + 1].start

\* Several bands were drawn for two cities at quarter-hour granularity.
C20_Witness ==
  /\ Returned("renderConsensus")
  /\ Len(calc.in.cities) >= 2
  /\ calc.in.gran = 15
  /\ Len(calc.out) >= 3

\* C21: search lists at most ten entries, by score descending, then curated
\* entries first, then by normalized display name ascending; no entry left
\* out ranks strictly better than a listed one; a query of nothing but
\* whitespace lists nothing.
SearchedCatalog == loadDataset(calc.in.host)

ScoreOf(it) ==
  scoreItem(SearchedCatalog, buildSearchIndex(SearchedCatalog), it, tokenize(calc.in.q))

DisplayName(it) == normalize(itemFields(it)[1])

RanksStrictlyBefore(a, b) ==
  \/ ScoreOf(a) > ScoreOf(b)
  \/ ScoreOf(a) = ScoreOf(b) /\ a.isCurated /\ ~b.isCurated
  \/ ScoreOf(a) = ScoreOf(b) /\ a.isCurated = b.isCurated
       /\ localeCompare(DisplayName(a), DisplayName(b)) < 0

C21_SearchRanking ==
  Returned("doSearch") =>
    LET out == calc.out
        listed == {out[k] : k \in 1..Len(out)}
        catalog == {SearchedCatalog[k] : k \in 1..Len(SearchedCatalog)}
    IN /\ Len(out) <= 10
       /\ listed \subseteq catalog
       /\ \A j, k \in 1..Len(out) : j < k => ~RanksStrictlyBefore(out[k], out[j])
       /\ \A it \in catalog \ listed : \A k \in 1..Len(out) : ~RanksStrictlyBefore(it, out[k])
       /\ (\A i \in 1..Len(calc.in.q) : calc.in.q[i] = " ") => out = <<>>

\* A search that matches more than ten entries, lists ten and reorders them.
C21_Witness ==
  /\ Returned("doSearch")
  /\ Len(calc.out) = 10
  /\ Len(SearchedCatalog) > 10
  /\ \A k \in 1..Len(SearchedCatalog) : ScoreOf(SearchedCatalog[k]) > 0
  /\ calc.out[1] # SearchedCatalog[3]
  /\ calc.out[1].tzId = "Etc/GMT+9"

\* C30: an entry is listed only if some query token matched it: as a prefix,
\* a token or a substring of its normalized index text, or within edit
\* distance 2 of one of its indexed tokens of length 3 to 12.
TokenMatches(it, t) ==
  LET ix == buildIndexForItem(it)
  IN \/ startsWith(ix.base, t)
     \/ t \in ix.baseTokens
     \/ includes(ix.base, t)
     \/ \E w \in ix.baseTokens : Len(w) >= 3 /\ Len(w) <= 12 /\ levenshtein(t, w) <= 2

C30_OnlyMatchesListed ==
  Returned("doSearch") =>
    \A k \in 1..Len(calc.out) :
      \E j \in 1..Len(tokenize(calc.in.q)) : TokenMatches(calc.out[k], tokenize(calc.in.q)[j])

\* C22: applying from/to, both valid instants with from < to, sets the first
\* candidate's date to the local date of from in the first tracked city's
\* zone and its selection to the rounded slot distances of from and to from
\* that date's midnight anchor, clamped to [0, totalSlots], at the current
\* granularity.
C22_UrlRangeApplied ==
  [][(/\ lastOp' = "applyUrlParams"
      /\ url.from.kind = "ms" /\ url.to.kind = "ms"
      /\ url.from.ms < url.to.ms)
     => LET tz == topTz(cities')
            date == partsFromTs(url.from.ms, tz).day
            anchor == zonedMidnight(date, tz)
            slot(t) == clamp(MathRound(t - anchor, view * MS_PER_MIN), 0, totalSlots(view))
        IN /\ blocks'[1].date = date
           /\ blocks'[1].selection = Sel(slot(url.from.ms), slot(url.to.ms))]_vars

\* C23: the text of a candidate with a selection is its name and one line
\* per tracked city in tracked order; a line prints the city's local time
\* at anchor + start * granularity and at anchor + end * granularity, the
\* end as HH:mm only when both instants are on one local day of the city;
\* for an anchor city whose offset is constant over the day the start reads
\* start * granularity minutes after 00:00 of the candidate's date.
ConstantOffsetOver(date, tz) ==
  \A h \in -14..62 :
    HostOffsetSec(DateUTC(date, h, 0, 0), tz) = HostOffsetSec(DateUTC(date, 0, 0, 0), tz)

C23_OutputText ==
  (Returned("blockOutputsText") /\ calc.in.block.selection.has) =>
    LET cs == calc.in.cities
        sel == calc.in.block.selection
        g == calc.in.gran
        date == calc.in.block.date
        anchor == zonedMidnightUtcMs(date, topTz(cs))
        startTs == anchor + sel.start * g * MS_PER_MIN
        endTs == anchor + sel.end * g * MS_PER_MIN
        lines == calc.out.lines
        Short(l) == DOMAIN l.end = {"hour", "minute"}
    IN /\ ~calc.out.unset
       /\ calc.out.name = calc.in.block.name
       /\ Len(lines) = Len(cs)
       /\ \A k \in 1..Len(cs) :
            LET ps == partsFromTs(startTs, cs[k].tzId)
                pe == partsFromTs(endTs, cs[k].tzId)
            IN /\ lines[k].city = cs[k].id
               /\ lines[k].start.day = ps.day
               /\ lines[k].start.hour = ps.hour /\ lines[k].start.minute = ps.minute
               /\ lines[k].end.hour = pe.hour /\ lines[k].end.minute = pe.minute
               /\ Short(lines[k]) => ps.day = pe.day
               /\ ~Short(lines[k]) => lines[k].end.day = pe.day
       /\ (Len(cs) > 0 /\ ConstantOffsetOver(date, cs[1].tzId)) =>
            /\ lines[1].start.day = date + (sel.start * g) \div DAY_MIN
            /\ lines[1].start.hour * 60 + lines[1].start.minute = (sel.start * g) % DAY_MIN

\* Tokyo leads at granularity 60 with [9,17): its line reads 09:00 and, as
\* HH:mm only, 17:00, while another line prints its end with the date.
C23_Witness ==
  /\ Returned("blockOutputsText")
  /\ calc.in.gran = 60 /\ calc.in.block.selection = Sel(9, 17)
  /\ Len(calc.in.cities) = 2 /\ calc.in.cities[1].tzId = "Asia/Tokyo"
  /\ calc.out.lines[1].start.hour = 9 /\ calc.out.lines[1].start.minute = 0
  /\ calc.out.lines[1].end = [hour |-> 17, minute |-> 0]
  /\ DOMAIN calc.out.lines[2].end # {"hour", "minute"}

\* C24: during a new-range drag that started at slot s0, after every
\* pointer-move to a slot s the candidate's selection is
\* [min(s0, s), max(s0, s)].
C24_AnchorStaysEndpoint ==
  [][\A i \in 1..Len(dom) :
       (lastOp' = "pointermove" /\ dom[i].dragging = "range") =>
         \E x \in PointerXs :
           LET s0 == dom[i].dragAnchorStart
               s == posToSlot(x, dom[i].gran)
           IN blocks'[i].selection = Sel(Min(s0, s), Max(s0, s))]_vars

\* C25: the active periodic timers are the one 1-second clock timer and at
\* most one 30-second refresh timer per live candidate, and no tick changes
\* the tracked cities, the candidates, the view or a persisted record.
C25_TimersDoNotAccumulate ==
  [][/\ timers'.clock <= 1
     /\ timers'.now <= Len(blocks')
     /\ pc' = "ready" => timers'.clock = 1
     /\ lastOp' \in {"clockTick", "nowTimerTick"} => UNCHANGED <<cities, blocks, view, store>>]_vars

\* C26: for every slot of the day the run-length-encoded intensity is
\* min(0.25, 0.05 + 0.2 * score / (3 * cityCount)) quantized to one decimal,
\* score being the sum over the tracked cities of hourComfort of the city's
\* local hour at the slot: 3 for hours 9-17, 2 for 7-8 and 18-20, 1 for 6
\* and 21-22, 0 otherwise.  Intensities are compared in tenths.
HourComfort(h) ==
  IF h \in 9..17 THEN 3
  ELSE IF h \in {7, 8, 18, 19, 20} THEN 2
  ELSE IF h \in {6, 21, 22} THEN 1
  ELSE 0

RECURSIVE SumOver(_, _)
SumOver(f, n) == IF n = 0 THEN 0 ELSE f[n] + SumOver(f, n - 1)

\* The instant in the middle of slot s of the consensus call being followed.
SlotMidpoint(s) ==
  zonedMidnightUtcMs(calc.in.date, topTz(calc.in.cities))
    + (2 * s + 1) * calc.in.gran * (MS_PER_MIN \div 2)

SlotComfort(s) ==
  SumOver([k \in 1..Len(calc.in.cities) |->
             HourComfort(partsFromTs(SlotMidpoint(s), calc.in.cities[k].tzId).hour)],
          Len(calc.in.cities))

\* min(0.25, 0.05 + 0.2 * score / (3 * n)) in tenths, rounded half up:
\* min(15 * n, 3 * n + 4 * score) / (6 * n).
QuantizedTenths(score, n) ==
  (2 * Min(15 * n, 3 * n + 4 * score) + 6 * n) \div (12 * n)

\* The intensity of the run that covers slot s.
RunIntensity(s) ==
  LET i == CHOOSE j \in 1..Len(calc.out) : calc.out[j].start <= s /\ s < calc.out[j].end
  IN calc.out[i].q

C26_IntensityFormula ==
  Returned("consensusSegments") =>
    \A s \in 0..(totalSlots(calc.in.gran) - 1) :
      RunIntensity(s) = QuantizedTenths(SlotComfort(s), Len(calc.in.cities))

\* C26 as amended: the intensity is 0 for a slot whose score is 0, and the
\* quantized formula for every other slot.
C26_IntensityFormulaUnlessZero ==
  Returned("consensusSegments") =>
    \A s \in 0..(totalSlots(calc.in.gran) - 1) :
      RunIntensity(s) = IF SlotComfort(s) = 0 THEN 0
                        ELSE QuantizedTenths(SlotComfort(s), Len(calc.in.cities))

\* A day with slots of score 0 and slots of every quantized intensity.
C26_Witness ==
  /\ Returned("consensusSegments")
  /\ Len(calc.in.cities) = 2
  /\ {calc.out[j].q : j \in 1..Len(calc.out)} = {0, 1, 2, 3}
  /\ \E s \in 0..(totalSlots(calc.in.gran) - 1) : SlotComfort(s) = 0

\* C27: when no scanned instant formats to the requested date at 00:00 in
\* the zone, zonedMidnightUtcMs still returns: the naive UTC midnight of the
\* date minus the zone's offset at that naive instant.
NoScannedMidnight(date, tz) ==
  \A k \in 0..(2 * SCAN_HALF_WINDOW_H * 60) :
    LET p == partsFromTs(DateUTC(date, 12, 0, 0) - SCAN_HALF_WINDOW_H * HOUR_MS
                           + k * MS_PER_MIN, tz)
    IN ~(p.day = date /\ p.hour = 0 /\ p.minute = 0)

C27_FallbackByOffset ==
  (Returned("zonedMidnightUtcMs") /\ NoScannedMidnight(calc.in.date, calc.in.tz)) =>
    calc.out = DateUTC(calc.in.date, 0, 0, 0)
                 - 1000 * HostOffsetSec(DateUTC(calc.in.date, 0, 0, 0), calc.in.tz)

\* The day on which America/Sao_Paulo skips the hour from 00:00 to 01:00.
C27_Witness ==
  /\ Returned("zonedMidnightUtcMs")
  /\ NoScannedMidnight(calc.in.date, calc.in.tz)
  /\ calc.in.tz = "America/Sao_Paulo"
  /\ calc.out = DateUTC(calc.in.date, 3, 0, 0)

\* C28: no two tracked cities share an id: adding a city whose id is
\* tracked (from search, as current location, from the URL) changes nothing,
\* and removing a city removes exactly that one and keeps the order of the
\* others.
IdsOf(cs) == {cs[i].id : i \in 1..Len(cs)}

IdsDistinct(cs) == \A i, j \in 1..Len(cs) : cs[i].id = cs[j].id => i = j

C28_CityIdsUnique ==
  [][/\ IdsDistinct(cities')
     /\ lastOp' \in {"addCity", "addCurrent"} =>
          \/ UNCHANGED <<cities, blocks, store, dom>>
          \/ /\ Len(cities') = Len(cities) + 1
             /\ SubSeq(cities', 1, Len(cities)) = cities
             /\ cities'[Len(cities')].id \notin IdsOf(cities)
     /\ lastOp' = "applyUrlParams" =>
          /\ SubSeq(cities', 1, Len(cities)) = cities
          /\ \A i \in (Len(cities) + 1)..Len(cities') :
               cities'[i].id \notin IdsOf(cities)
               /\ \E k \in 1..Len(url.cities) : url.cities[k] = cities'[i].id
     /\ lastOp' = "removeCity" =>
          \E i \in 1..Len(cities) :
            /\ cities' = RemoveAt(cities, i)
            /\ cities[i].id \notin IdsOf(cities')]_vars

\* A search result whose id is tracked was clicked right after a page load
\* with three stored cities: nothing was added or saved.
C28_Witness ==
  /\ lastOp = "addCity" /\ steps = 1
  /\ store = ReturningStore
  /\ cities = ThreeCities
  /\ \E k \in 1..Len(dataset) : dataset[k].id \in IdsOf(cities)

\* C29: candidates never share selection or date state. No object is held by
\* two candidate fields, and a drag edit, a date change or the application of
\* the URL parameters changes the date and selection of at most one candidate.
DateAndSelection(b) == <<b.date, b.selection>>

NoSharedObjects(rs) ==
  \A i \in 1..Len(rs) : \A j \in 1..Len(rs) :
    i # j => /\ rs[i].date # rs[j].date
             /\ rs[i].selection # 0 => rs[i].selection # rs[j].selection

EditsOneCandidate ==
  /\ Len(blocks') = Len(blocks)
  /\ \E i \in 1..Len(blocks) :
       \A j \in 1..Len(blocks) :
         j # i => DateAndSelection(blocks'[j]) = DateAndSelection(blocks[j])

CandidateEdits ==
  {"pointerdown", "pointermove", "dateChange", "changeBlockDay", "jumpToWeekday",
   "applyUrlParams"}

C29_NoSharedCandidateState ==
  [][/\ NoSharedObjects(objects')
     /\ lastOp' \in CandidateEdits => EditsOneCandidate]_vars

\* A cloned candidate whose end handle was dragged away from the selection of
\* the candidate it was cloned from.
C29_Witness ==
  /\ lastOp = "pointermove"
  /\ Len(blocks) = 2 /\ Len(dom) = 2
  /\ dom[2].dragging = "end"
  /\ blocks[1].selection.has /\ blocks[2].selection.has
  /\ blocks[1].selection # blocks[2].selection
  /\ blocks[1].date = blocks[2].date

====
